---- MODULE Spec2Model ----
(***************************************************************************)
(* Model of the request governor of vox-note: processWithTimeout and      *)
(* gracefulShutdown with their module-level state activeRequests,         *)
(* isShuttingDown and requestQueue.                                       *)
(*                                                                         *)
(* A processWithTimeout call is a record.  The governor tells two calls   *)
(* apart only through the entries of requestQueue, so the calls made so   *)
(* far are kept as a bag of records; a call that was parked carries the   *)
(* number of its queue entry (its ticket, in order of first parking).     *)
(* The fields of a call:                                                  *)
(*   pc      "queued"    parked in requestQueue (line 440)                *)
(*           "woken"     its queue promise was resolved (line 470); the   *)
(*                       .then callback of line 441, which calls          *)
(*                       processWithTimeout again, has not run yet        *)
(*           "active"    admitted: operation() is running, timer armed    *)
(*           "timedout"  the timer fired (447-456), operation() still runs*)
(*           "finished"  operation() returned or threw and the finally    *)
(*                       block (465-472) has run                          *)
(*           "rejected"  threw 'Bot is shutting down' (435), or its queue *)
(*                       promise was rejected by gracefulShutdown (1667)  *)
(*   outcome how the promise handed to the caller settled                 *)
(*   op      how operation() ended                                        *)
(*   timer   the state of the setTimeout of line 447                      *)
(*   started how many times operation() was invoked (line 459)            *)
(*   ticket  0, or the number of the call's queue entry                   *)
(***************************************************************************)
EXTENDS Integers, Sequences, FiniteSets, Bags

\* SAFETY_CONFIG.REQUEST_QUEUE_SIZE: the cap on concurrently active operations
REQUEST_QUEUE_SIZE == 5

\* Number of processWithTimeout calls of a run
MaxCalls == 8

\* Number of operations that throw in a run
MaxThrows == 1

\* Number of operation timers that fire in a run
MaxTimeouts == 1

\* Number of /search lookups that run at the same time
MaxSearches == 1

\* Length of a question or query, in characters
MaxLen == 2

\* Number of rows of table knowledge_base
MaxEntries == 2

\* The capacity of processedMessages.  The source has 1000 (line 1476); the
\* handlers compare the size of the Set with it and nothing else.
MAX_PROCESSED_IDS == 2

\* Number of messages, with the message ids 1 to MaxMsgId
MaxMsgId == 3

\* Number of deliveries of messages, redeliveries included
MaxDeliveries == 4

\* The largest attempts argument of a fetchWithRetry call
MaxAttempts == 4

\* The number of rows the select of the fuzzy stage asks for.  The source has
\* .limit(100) (line 107); the table of the model has one row more than that.
FUZZY_LIMIT == 2

VARIABLES
  calls,           \* the bag of the calls made so far
  activeRequests,  \* let activeRequests
  requestQueue,    \* const requestQueue: tickets of the parked calls, head first
  wokenQueue,      \* tickets whose .then callback (line 441) is a pending job
  isShuttingDown,  \* let isShuttingDown
  shutdownPc,      \* where gracefulShutdown is, and whether the process has exited
  directLookups,   \* the findInSupabase calls of /search: how many run, and
                   \* whether one was started while the bot was shutting down
  store,           \* the rows of table knowledge_base, in store order
  query,           \* the query handed to enhancedFindAnswer
  lookupPc,        \* where the knowledge-base lookup of the query is
  lookupRow,       \* the row the exact-match select returned, 0 for none
  added,           \* what the addKnowledge call before the lookup was given,
                   \* and the table it found
  lookupResult,    \* what enhancedFindAnswer returned for the lookup
  resolveEnv,      \* an enhancedFindAnswer call's surroundings: useAI,
                   \* supabaseAvailable, GROQ_CONFIG.enabled, and what the store
                   \* and the LLM answer when they are asked
  resolvePc,       \* where enhancedFindAnswer is
  fis,             \* where findInSupabase is (0 not started, 1 to 4 at the select
                   \* of that stage, 5 returned) and what it returned
  kbOutcome,       \* how processWithTimeout(findInSupabase) settled
  llmCall,         \* where the operation of queryGroqAI is, and how
                   \* its processWithTimeout settled
  consulted,       \* the stages whose collaborator was asked so far
  result,          \* what enhancedFindAnswer returned
  handlerReply,    \* what the handler that called enhancedFindAnswer sent to
                   \* the user after the call
  processedMessages, \* const processedMessages: the ids of the Set, oldest first
  recentInserts,   \* the ids last added to processedMessages, at most
                   \* MAX_PROCESSED_IDS of them, oldest first
  evictedIds,      \* the ids that were deleted from processedMessages
  session,         \* ctx.session of each user
  delivered,       \* how many messages were handed to a handler
  handled,         \* for each message: the enhancedFindAnswer calls made and
                   \* the answers sent for it
  lastCall,        \* the message and the useAI flag of the latest
                   \* enhancedFindAnswer call, id 0 before the first
  modeCommands,    \* for each user and channel, what the latest toggle
                   \* command for it asked for
  table,           \* the rows of knowledge_base that findInSupabase searches,
                   \* oldest first
  q,               \* const q = query.trim().toLowerCase()
  findPc,          \* the stage findInSupabase is at
  allQuestions,    \* the rows the select of the fuzzy stage returned
  scores,          \* the totalScore of the rows of allQuestions scored so far
  found,           \* what findInSupabase returned, and the stage it came from
  defaultCall,     \* a getDefaultResponse call: its query, what it returned
                   \* and the promise of its getRelatedSuggestions call
  knowledge_base,  \* the rows of table knowledge_base that /add writes, the
                   \* index of a row being its id
  adds,            \* the addKnowledge calls: where each is, what it parsed from
                   \* its input and what its existence check returned
  transcriber,     \* let transcriber
  isModelLoading,  \* let isModelLoading
  modelLoadQueue,  \* const modelLoadQueue: the callers parked in it, head first
  loadCalls,       \* the loadTranscriber calls: where each is and how it settled
  loads,           \* how many times pipeline(...) was called, and how many of
                   \* these calls have not settled
  processing,      \* for each message: its deliveries, how many of them are
                   \* past the dedup check with their handler at an await,
                   \* and how many of them ended with an error
  fetchCall        \* a fetchWithRetry call: its attempts argument, the loop
                   \* counter, the fetches made, the waits and how it settled

\* The state of the governor
govVars == <<calls, activeRequests, requestQueue, wokenQueue, isShuttingDown, shutdownPc>>

\* The state of the /search command
searchVars == <<directLookups>>

\* The state of a knowledge-base lookup
lookupVars == <<store, query, lookupPc, lookupRow, lookupResult, added>>

\* The state of an enhancedFindAnswer call
resolveVars == <<resolveEnv, resolvePc, fis, kbOutcome, llmCall, consulted, result,
                 handlerReply>>

\* The state of the message handlers
handlerVars == <<processedMessages, recentInserts, evictedIds, session, delivered,
                 handled, lastCall, modeCommands>>

\* The state of a findInSupabase call on strings
findVars == <<table, q, findPc, allQuestions, scores, found>>

\* The state of a getDefaultResponse call
defaultVars == <<defaultCall>>

\* The state of the addKnowledge calls
writeVars == <<knowledge_base, adds>>

\* The state of the Whisper model loader
loadVars == <<transcriber, isModelLoading, modelLoadQueue, loadCalls, loads>>

\* The state of a fetchWithRetry call
fetchVars == <<fetchCall>>

\* The deliveries whose handler is at an await
flightVars == <<processing>>

\* What the governor's own steps leave alone
nonGovVars == <<searchVars, lookupVars, resolveVars, handlerVars, findVars, defaultVars,
   writeVars, loadVars, fetchVars,
   flightVars>>

\* What the /search command leaves alone
nonSearchVars == <<govVars, lookupVars, resolveVars, handlerVars, findVars, defaultVars,
   writeVars, loadVars, fetchVars,
   flightVars>>

\* What a knowledge-base lookup leaves alone
nonLookupVars == <<govVars, searchVars, resolveVars, handlerVars, findVars, defaultVars,
   writeVars, loadVars, fetchVars,
   flightVars>>

\* What an enhancedFindAnswer call leaves alone
nonResolveVars == <<govVars, searchVars, lookupVars, handlerVars, findVars, defaultVars,
   writeVars, loadVars, fetchVars,
   flightVars>>

\* What the message handlers leave alone
nonHandlerVars == <<govVars, searchVars, lookupVars, resolveVars, findVars, defaultVars,
   writeVars, loadVars, fetchVars,
   flightVars>>

\* What the stages of findInSupabase leave alone
nonFindVars == <<govVars, searchVars, lookupVars, resolveVars, handlerVars, defaultVars,
   writeVars, loadVars, fetchVars,
   flightVars>>

\* What getDefaultResponse leaves alone
nonDefaultVars == <<govVars, searchVars, lookupVars, resolveVars, handlerVars, findVars,
   writeVars, loadVars, fetchVars,
   flightVars>>

\* What the addKnowledge calls leave alone
nonWriteVars == <<govVars, searchVars, lookupVars, resolveVars, handlerVars, findVars,
                  defaultVars, loadVars, fetchVars,
   flightVars>>

\* What the model loader leaves alone
nonLoadVars == <<govVars, searchVars, lookupVars, resolveVars, handlerVars, findVars,
                 defaultVars, writeVars, fetchVars,
   flightVars>>

\* What fetchWithRetry leaves alone
nonFetchVars == <<govVars, searchVars, lookupVars, resolveVars, handlerVars, findVars,
                  defaultVars, writeVars, loadVars,
   flightVars>>

vars == <<govVars, searchVars, lookupVars, resolveVars, handlerVars, findVars, defaultVars,
   writeVars, loadVars, fetchVars,
   flightVars>>

Outcomes == {"pending", "result", "operror", "timeout", "shutdown"}

PcValues == {"new", "queued", "woken", "active", "timedout", "finished", "rejected"}

CallRecords ==
  [pc : PcValues, outcome : Outcomes, op : {"none", "value", "error"},
   timer : {"none", "armed", "fired", "cleared"}, started : 0..2, ticket : 0..MaxCalls]

\* A call at the entry of processWithTimeout
NewCall ==
  [pc |-> "new", outcome |-> "pending", op |-> "none", timer |-> "none",
   started |-> 0, ticket |-> 0]

All == BagToSet(calls)

\* The number of calls that satisfy a condition
Count(S) == BagCardinality([r \in S |-> calls[r]])

nCalls == BagCardinality(calls)

Tickets == {r.ticket : r \in {x \in All : x.ticket > 0}}

\* The call that holds queue entry t
Rec(t) == CHOOSE r \in All : r.ticket = t

\* The calls whose operation() is running
Running == {r \in All : r.pc \in {"active", "timedout"}}

\* The GovernorSlots: admitted, neither completed nor timed out
Slots == {r \in All : r.pc = "active"}

\* The users: each has one private chat with the bot, and one session
Users == {"u1", "u2"}

MsgIds == 1..MaxMsgId

\* ctx.from.id of a message
Sender(m) == IF m % 2 = 1 THEN "u1" ELSE "u2"

\* Whether a message is a voice or a text message
Kind(m) == IF m % 3 = 0 THEN "voice" ELSE "text"

\* A session: the two mode flags are absent until a toggle sets them; of the
\* three document fields, whether each is present
Sessions ==
  [voiceAIMode : {"unset", "on", "off"}, textAIMode : {"unset", "on", "off"},
   waitingForQuestion : BOOLEAN, documentText : BOOLEAN, documentName : BOOLEAN,
   documentTimestamp : BOOLEAN]

\* defaultSession: () => ({})
EmptySession ==
  [voiceAIMode |-> "unset", textAIMode |-> "unset",
   waitingForQuestion |-> FALSE, documentText |-> FALSE, documentName |-> FALSE,
   documentTimestamp |-> FALSE]

\* The ids of a sequence of ids
Range(seq) == {seq[i] : i \in DOMAIN seq}

\* The callers of addKnowledge: two /add commands can be in flight at once
Adders == {"c1", "c2"}

\* An addKnowledge call that has not been made
NoAdd == [pc |-> "idle", question |-> <<>>, answer |-> <<>>, existing |-> 0]

\* No error: the attempt of an error is 0
NoError == [attempt |-> 0, kind |-> "none"]

\* The callers of loadTranscriber
Loaders == {"l1", "l2", "l3"}

\* The surroundings of an enhancedFindAnswer call
Environments ==
  [useAI : BOOLEAN, supabaseAvailable : BOOLEAN, groqEnabled : BOOLEAN,
   kb : [1..4 -> {"none", "hit", "empty", "error"}],
   llm : {"answer", "nothing", "error"}]

TypeOK ==
  /\ IsABag(calls)
  /\ All \subseteq CallRecords
  /\ nCalls <= MaxCalls
  /\ \A r \in All : r.ticket > 0 => calls[r] = 1
  /\ activeRequests \in Int
  /\ requestQueue \in Seq(Tickets)
  /\ wokenQueue \in Seq(Tickets)
  /\ isShuttingDown \in BOOLEAN
  /\ shutdownPc \in {"off", "stopping", "waiting", "exit0", "exit1"}
  /\ directLookups \in [running : 0..MaxSearches, inShutdown : BOOLEAN]
  /\ Len(store) <= MaxEntries + 1
  /\ Len(query) <= MaxLen
  /\ lookupPc \in {"off", "add", "start", "selected", "done"}
  /\ lookupRow \in 0..(MaxEntries + 1)
  /\ added.done \in BOOLEAN
  /\ lookupResult.source \in {"none", "knowledge_base", "other"}
  /\ resolveEnv \in Environments
  /\ resolvePc \in {"off", "start", "kb", "context", "llm", "done"}
  /\ fis \in [pc : 0..5, value : {"none", "text", "empty", "null"}, stage : 0..4]
  /\ kbOutcome \in Outcomes
  /\ llmCall \in [pc : {"idle", "running", "ended"}, outcome : Outcomes, context : BOOLEAN]
  /\ consulted \subseteq 1..5
  /\ result.source \in {"none", "knowledge_base", "groq_ai", "default"}
  /\ handlerReply \in {"none", "answer", "apology"}
  /\ processedMessages \in Seq(MsgIds)
  /\ recentInserts \in Seq(MsgIds)
  /\ evictedIds \subseteq MsgIds
  /\ session \in [Users -> Sessions]
  /\ delivered \in 0..MaxDeliveries
  /\ handled \in [MsgIds -> [calls : 0..MaxDeliveries, answers : 0..MaxDeliveries]]
  /\ lastCall \in [id : 0..MaxMsgId, useAI : BOOLEAN]
  /\ modeCommands \in [Users -> [voice : {"unset", "on", "off"},
                                  text : {"unset", "on", "off"}]]
  /\ Len(table) <= FUZZY_LIMIT + 1
  /\ q \in Seq({"a", "b", "c", "d", " "})
  /\ findPc \in {"off", "exact", "synonym", "fuzzy", "score", "content", "done"}
  /\ allQuestions \in Seq(1..(FUZZY_LIMIT + 1))
  /\ Len(allQuestions) <= FUZZY_LIMIT
  /\ Len(scores) <= Len(allQuestions)
  /\ found.stage \in {"none", "exact", "synonym", "fuzzy", "content"}
  /\ defaultCall.pc \in {"off", "start", "returned"}
  /\ defaultCall.suggestions \in {"none", "pending", "null", "questions"}
  /\ knowledge_base \in Seq([question : Seq({"a", "A", "_"}), answer : Seq({"x", "y"}),
                              content : Seq({"x", "y"})])
  /\ adds \in [Adders -> [pc : {"idle", "select", "write", "done", "invalid", "failed"},
                          question : Seq({"a", "A", "_"}), answer : Seq({"x", "y"}),
                          existing : Nat]]
  /\ transcriber \in {"null", "pipeline"}
  /\ isModelLoading \in BOOLEAN
  /\ modelLoadQueue \in Seq(Loaders)
  /\ loadCalls \in [Loaders -> [pc : {"idle", "loading", "parked", "returned"},
                                outcome : {"pending", "transcriber", "error", "timeout"}]]
  /\ loads \in [started : Nat, running : Nat]
  /\ fetchCall.pc \in {"off", "fetch", "wait", "returned", "thrown", "ended"}
  /\ fetchCall.attempts \in 0..MaxAttempts
  /\ fetchCall.fetches \in Nat
  /\ processing \in [MsgIds -> [arrived : 0..MaxDeliveries, running : 0..MaxDeliveries,
                                 failed : 0..MaxDeliveries]]

\* No /search command has been handled
\* enhancedFindAnswer has not returned
NoResult == [source |-> "none", stage |-> "none", text |-> ""]

SearchIdle == directLookups = [running |-> 0, inShutdown |-> FALSE]

\* No lookup is modelled
NotAdded == [done |-> FALSE, question |-> <<>>, answer |-> "", before |-> <<>>]

LookupIdle ==
  /\ store = <<>>
  /\ query = <<>>
  /\ lookupPc = "off"
  /\ lookupRow = 0
  /\ lookupResult = NoResult
  /\ added = NotAdded

\* The stages of a resolution in their order: 1 to 4 are the selects of
\* findInSupabase, 5 is queryGroqAI, 6 is getDefaultResponse
StageName == <<"exact", "synonym", "fuzzy", "content", "llm", "default">>

\* No enhancedFindAnswer call is modelled
ResolveIdle ==
  /\ resolveEnv = [useAI |-> FALSE, supabaseAvailable |-> FALSE, groqEnabled |-> FALSE,
                   kb |-> [i \in 1..4 |-> "none"], llm |-> "nothing"]
  /\ resolvePc = "off"
  /\ fis = [pc |-> 0, value |-> "none", stage |-> 0]
  /\ kbOutcome = "pending"
  /\ llmCall = [pc |-> "idle", outcome |-> "pending", context |-> FALSE]
  /\ consulted = {}
  /\ result = NoResult
  /\ handlerReply = "none"

\* The bot has started (startBot clears processedMessages) and no message
\* has arrived
HandlerIdle ==
  /\ processedMessages = <<>>
  /\ recentInserts = <<>>
  /\ evictedIds = {}
  /\ session = [u \in Users |-> EmptySession]
  /\ delivered = 0
  /\ handled = [m \in MsgIds |-> [calls |-> 0, answers |-> 0]]
  /\ lastCall = [id |-> 0, useAI |-> FALSE]
  /\ modeCommands = [u \in Users |-> [voice |-> "unset", text |-> "unset"]]

\* No findInSupabase call on strings
FindIdle ==
  /\ table = <<>>
  /\ q = <<>>
  /\ findPc = "off"
  /\ allQuestions = <<>>
  /\ scores = <<>>
  /\ found = [stage |-> "none", text |-> <<>>]

\* No getDefaultResponse call
DefaultIdle ==
  defaultCall = [pc |-> "off", start |-> "other", questionMark |-> FALSE,
                 greetingInside |-> FALSE, supabaseAvailable |-> FALSE, related |-> 0,
                 text |-> <<>>, suggestions |-> "none"]

\* No addKnowledge call has been made and the table is empty
WriteIdle ==
  /\ knowledge_base = <<>>
  /\ adds = [c \in Adders |-> NoAdd]

\* No loadTranscriber call has been made
LoadIdle ==
  /\ transcriber = "null"
  /\ isModelLoading = FALSE
  /\ modelLoadQueue = <<>>
  /\ loadCalls = [c \in Loaders |-> [pc |-> "idle", outcome |-> "pending"]]
  /\ loads = [started |-> 0, running |-> 0]

\* No fetchWithRetry call
FetchIdle ==
  fetchCall = [pc |-> "off", attempts |-> 0, i |-> 0, fetches |-> 0, waits |-> <<>>,
               errors |-> <<>>, response |-> 0, thrown |-> NoError]

\* No handler is at an await
FlightIdle == processing = [m \in MsgIds |-> [arrived |-> 0, running |-> 0, failed |-> 0]]

\* The governor at rest
GovIdle ==
  /\ calls = EmptyBag
  /\ activeRequests = 0
  /\ requestQueue = <<>>
  /\ wokenQueue = <<>>
  /\ isShuttingDown = FALSE
  /\ shutdownPc = "off"

Init ==
  /\ calls = EmptyBag
  /\ activeRequests = 0
  /\ requestQueue = <<>>
  /\ wokenQueue = <<>>
  /\ isShuttingDown = FALSE
  /\ shutdownPc = "off"
  /\ SearchIdle
  /\ LookupIdle
  /\ ResolveIdle
  /\ HandlerIdle
  /\ FindIdle
  /\ DefaultIdle
  /\ WriteIdle
  /\ LoadIdle
  /\ FetchIdle
  /\ FlightIdle

\* process.exit has been called: nothing runs any more
Exited == shutdownPc \in {"exit0", "exit1"}

\* The exit code of the process, -1 while it runs
ExitCode == IF shutdownPc = "exit0" THEN 0 ELSE IF shutdownPc = "exit1" THEN 1 ELSE -1

One(r) == SetToBag({r})

\* Mutant of Settle: the last settlement wins
SettleLastWins(o, v) == v

\* resolve(v) / reject(e) of a promise: only the first settlement counts
Settle(o, v) == IF o = "pending" THEN v ELSE o

\* if (isShuttingDown) throw new Error('Bot is shutting down')
ThrowShuttingDown(rest, r) ==
  /\ calls' = rest (+) One([r EXCEPT !.pc = "rejected",
                                      !.outcome = Settle(r.outcome, "shutdown")])
  /\ UNCHANGED <<activeRequests, requestQueue>>

\* Mutant of Enqueue: operation() is invoked before the call is parked
EnqueueAfterInvoking(rest, r) ==
  LET t == IF r.ticket = 0 THEN Cardinality(Tickets) + 1 ELSE r.ticket
  IN  /\ requestQueue' = Append(requestQueue, t)
      /\ calls' = rest (+) One([r EXCEPT !.pc = "queued", !.ticket = t,
                                          !.started = r.started + 1])
      /\ UNCHANGED activeRequests

\* requestQueue.push({ resolve, reject }): the call waits for its queue promise
Enqueue(rest, r) ==
  LET t == IF r.ticket = 0 THEN Cardinality(Tickets) + 1 ELSE r.ticket
  IN  /\ requestQueue' = Append(requestQueue, t)
      /\ calls' = rest (+) One([r EXCEPT !.pc = "queued", !.ticket = t])
      /\ UNCHANGED activeRequests

\* activeRequests++; the executor arms the timer and invokes operation()
Admit(rest, r) ==
  /\ activeRequests' = activeRequests + 1
  /\ calls' = rest (+) One([r EXCEPT !.pc = "active", !.timer = "armed",
                                      !.started = r.started + 1])
  /\ UNCHANGED requestQueue

\* Mutant of ProcessWithTimeout: the cap is tested with > instead of >=
ProcessWithTimeoutOffByOne(rest, r) ==
  IF isShuttingDown
    THEN ThrowShuttingDown(rest, r)
    ELSE IF activeRequests > REQUEST_QUEUE_SIZE
           THEN Enqueue(rest, r)
           ELSE Admit(rest, r)

\* The synchronous part of processWithTimeout, up to `await operation()`,
\* for call r; rest are the other calls
ProcessWithTimeout(rest, r) ==
  IF isShuttingDown
    THEN ThrowShuttingDown(rest, r)
    ELSE IF activeRequests >= REQUEST_QUEUE_SIZE
           THEN Enqueue(rest, r)
           ELSE Admit(rest, r)

\* A caller calls processWithTimeout
Call ==
  /\ ~Exited
  /\ nCalls < MaxCalls
  /\ ProcessWithTimeout(calls, NewCall)
  /\ UNCHANGED <<wokenQueue, isShuttingDown, shutdownPc>>
  /\ UNCHANGED nonGovVars

\* .then(() => processWithTimeout(operation, operationName, timeoutMs)) of a
\* call whose queue promise was resolved.  Promise jobs run in the order in
\* which the promises were resolved.
Recheck ==
  /\ ~Exited
  /\ wokenQueue # <<>>
  /\ wokenQueue' = Tail(wokenQueue)
  /\ ProcessWithTimeout(calls (-) One(Rec(Head(wokenQueue))), Rec(Head(wokenQueue)))
  /\ UNCHANGED <<isShuttingDown, shutdownPc>>
  /\ UNCHANGED nonGovVars

\* try { result = await operation(); clearTimeout; resolve(result) }
\* catch (error) { clearTimeout; reject(error) }
\* finally { activeRequests--; if (requestQueue.length > 0) requestQueue.shift().resolve() }
\* for call r, whose operation ends with res ("value" or "error")
OperationEnds(r, res) ==
  LET done == [r EXCEPT !.pc = "finished", !.op = res,
                        !.timer = IF r.timer = "armed" THEN "cleared" ELSE r.timer,
                        !.outcome = Settle(r.outcome,
                                           IF res = "value" THEN "result" ELSE "operror")]
      rest == (calls (-) One(r)) (+) One(done)
  IN  /\ activeRequests' = activeRequests - 1
      /\ IF Len(requestQueue) > 0
           THEN LET w == Rec(Head(requestQueue))
                IN  /\ requestQueue' = Tail(requestQueue)
                    /\ wokenQueue' = Append(wokenQueue, w.ticket)
                    /\ calls' = (rest (-) One(w)) (+) One([w EXCEPT !.pc = "woken"])
           ELSE /\ UNCHANGED <<requestQueue, wokenQueue>>
                /\ calls' = rest

\* operation() returns
OperationReturns ==
  /\ ~Exited
  /\ \E r \in Running : OperationEnds(r, "value")
  /\ UNCHANGED <<isShuttingDown, shutdownPc>>
  /\ UNCHANGED nonGovVars

\* operation() throws
OperationThrows ==
  /\ ~Exited
  /\ Count({x \in All : x.op = "error"}) < MaxThrows
  /\ \E r \in Running : OperationEnds(r, "error")
  /\ UNCHANGED <<isShuttingDown, shutdownPc>>
  /\ UNCHANGED nonGovVars

\* Mutant of TimerCallback: the timer rejects the caller and keeps the slot
TimerCallbackKeepsSlot(r) ==
  /\ calls' = (calls (-) One(r)) (+) One([r EXCEPT !.pc = "timedout", !.timer = "fired",
                                                   !.outcome = Settle(r.outcome, "timeout")])
  /\ UNCHANGED <<activeRequests, requestQueue, wokenQueue>>

\* The setTimeout callback of lines 447-456 for call r.  requestQueue holds the
\* resolve functions of the queue promises, never the executor's own resolve:
\* findIndex returns -1 and nothing is spliced.
TimerCallback(r) ==
  /\ calls' = (calls (-) One(r)) (+) One([r EXCEPT !.pc = "timedout", !.timer = "fired",
                                                   !.outcome = Settle(r.outcome, "timeout")])
  /\ activeRequests' = activeRequests - 1
  /\ UNCHANGED <<requestQueue, wokenQueue>>

\* The timer of an admitted operation fires
TimeoutFires ==
  /\ ~Exited
  /\ Count({x \in All : x.timer = "fired"}) < MaxTimeouts
  /\ \E r \in {x \in All : x.timer = "armed"} : TimerCallback(r)
  /\ UNCHANGED <<isShuttingDown, shutdownPc>>
  /\ UNCHANGED nonGovVars

\* Mutant of DrainQueue: the parked calls are left in the queue
DrainQueueSkipped ==
  /\ requestQueue' = requestQueue
  /\ calls' = calls

\* while (requestQueue.length > 0) { requestQueue.shift().reject(...) }
DrainQueue ==
  LET parked == {r \in All : r.pc = "queued"}
      gone   == {[r EXCEPT !.pc = "rejected", !.outcome = Settle(r.outcome, "shutdown")]
                   : r \in parked}
  IN  /\ requestQueue' = <<>>
      /\ calls' = (calls (-) SetToBag(parked)) (+) SetToBag(gone)

\* gracefulShutdown up to `await bot.stop()`: set the flag, drain the queue,
\* arm the 10 s timer
GracefulShutdown ==
  /\ ~Exited
  /\ ~isShuttingDown
  /\ isShuttingDown' = TRUE
  /\ DrainQueue
  /\ shutdownPc' = "stopping"
  /\ UNCHANGED <<activeRequests, wokenQueue>>
  /\ UNCHANGED nonGovVars

\* await bot.stop() returns
BotStopReturns ==
  /\ shutdownPc = "stopping"
  /\ shutdownPc' = "waiting"
  /\ UNCHANGED <<calls, activeRequests, requestQueue, wokenQueue, isShuttingDown>>
  /\ UNCHANGED nonGovVars

\* await bot.stop() throws: catch (err) { process.exit(1) }
BotStopThrows ==
  /\ shutdownPc = "stopping"
  /\ shutdownPc' = "exit1"
  /\ UNCHANGED <<calls, activeRequests, requestQueue, wokenQueue, isShuttingDown>>
  /\ UNCHANGED nonGovVars

\* The loop `while (activeRequests > 0) await sleep(1000)` finds
\* activeRequests <= 0: clearTimeout(shutdownTimeout); process.exit(0)
ShutdownLoopExits ==
  /\ shutdownPc = "waiting"
  /\ ~(activeRequests > 0)
  /\ shutdownPc' = "exit0"
  /\ UNCHANGED <<calls, activeRequests, requestQueue, wokenQueue, isShuttingDown>>
  /\ UNCHANGED nonGovVars

\* Mutant of ShutdownTimeoutFires: no hard deadline is armed
ShutdownTimeoutNeverFires ==
  /\ FALSE
  /\ UNCHANGED vars

\* The 10 s shutdownTimeout fires: process.exit(1)
ShutdownTimeoutFires ==
  /\ shutdownPc \in {"stopping", "waiting"}
  /\ shutdownPc' = "exit1"
  /\ UNCHANGED <<calls, activeRequests, requestQueue, wokenQueue, isShuttingDown>>
  /\ UNCHANGED nonGovVars

Next ==
  \/ Call
  \/ Recheck
  \/ OperationReturns
  \/ OperationThrows
  \/ TimeoutFires
  \/ GracefulShutdown
  \/ BotStopReturns
  \/ BotStopThrows
  \/ ShutdownLoopExits
  \/ ShutdownTimeoutFires

Spec == Init /\ [][Next]_vars

\* The event loop runs the timers that are due: the 10 s shutdown timer fires
\* unless the process has exited before
FairSpec == Spec /\ WF_vars(ShutdownTimeoutFires)

\* The timers of the admitted operations fire: each call of processWithTimeout
\* arms its own timer (line 447), so all REQUEST_QUEUE_SIZE operations that
\* hold the slots may run out of time
EveryTimerFires ==
  /\ ~Exited
  /\ Count({x \in All : x.timer = "fired"}) < REQUEST_QUEUE_SIZE
  /\ \E r \in {x \in All : x.timer = "armed"} : TimerCallback(r)
  /\ UNCHANGED <<isShuttingDown, shutdownPc>>
  /\ UNCHANGED nonGovVars

QueueNext ==
  \/ Call
  \/ Recheck
  \/ OperationReturns
  \/ OperationThrows
  \/ EveryTimerFires
  \/ GracefulShutdown
  \/ BotStopReturns
  \/ BotStopThrows
  \/ ShutdownLoopExits
  \/ ShutdownTimeoutFires

\* The governor with a timer per admitted operation.  The event loop runs the
\* promise jobs that are ready: a woken call re-enters processWithTimeout
QueueSpec == Init /\ [][QueueNext]_vars /\ WF_vars(Recheck)

(***************************************************************************)
(* The /search command beside the governor.  The handler calls            *)
(* findInSupabase itself (line 838), not through processWithTimeout; the   *)
(* busy/restart middleware (lines 1623-1635) is registered after the       *)
(* handlers, which do not call next(), so it never runs before them.       *)
(* The knowledge base is taken to be configured (line 828).                *)
(***************************************************************************)

\* bot.command('search'): const result = await findInSupabase(query).  An
\* update that was fetched before bot.stop() is handled also after
\* gracefulShutdown has set isShuttingDown.
SearchCommand ==
  /\ ~Exited
  /\ directLookups.running < MaxSearches
  /\ directLookups' = [running |-> directLookups.running + 1,
                       inShutdown |-> directLookups.inShutdown \/ isShuttingDown]
  /\ UNCHANGED nonSearchVars

\* The findInSupabase call of /search returns (it catches its own errors)
SearchLookupEnds ==
  /\ ~Exited
  /\ directLookups.running > 0
  /\ directLookups' = [directLookups EXCEPT !.running = @ - 1]
  /\ UNCHANGED nonSearchVars

SearchNext ==
  \/ Next
  \/ SearchCommand
  \/ SearchLookupEnds

\* The governor with the /search command
SearchSpec == Init /\ [][SearchNext]_vars

(***************************************************************************)
(* The exact-match stage of a kb-first lookup: enhancedFindAnswer(query,   *)
(* false) runs findInSupabase(query), whose first select is                *)
(*   .from('knowledge_base').select(...).ilike('question', q).limit(1)     *)
(* with q = query.trim().toLowerCase().  The knowledge base is configured, *)
(* the governor admits the call, and neither the timer nor the store       *)
(* fails.  Questions and queries are strings over Chars without white      *)
(* space: the handlers trim the text they pass on (lines 1507, 1544).      *)
(***************************************************************************)

\* The characters of questions and queries: a letter in both cases and the
\* character that ILIKE reads as "any one character"
Chars == {"a", "A", "_"}

\* Non-empty strings of at most MaxLen characters
Strings == UNION {[1..n -> Chars] : n \in 1..MaxLen}

\* A row of knowledge_base: question, answer, content
Entries == [question : Strings, answer : {"", "x", "y"}, content : {"", "c"}]

Stores == UNION {[1..n -> Entries] : n \in 0..MaxEntries}

\* String.prototype.toLowerCase, one character
LowerChar(c) == IF c = "A" THEN "a" ELSE c

\* String.prototype.toLowerCase
ToLowerCase(str) == [i \in DOMAIN str |-> LowerChar(str[i])]

\* PostgreSQL's  str ILIKE pat : in pat, % stands for any string and _ for any
\* one character, every other character for itself in either case
RECURSIVE Like(_, _)
Like(str, pat) ==
  IF pat = <<>>
    THEN str = <<>>
    ELSE IF Head(pat) = "%"
           THEN Like(str, Tail(pat)) \/ (str # <<>> /\ Like(Tail(str), pat))
           ELSE /\ str # <<>>
                /\ (Head(pat) = "_" \/ LowerChar(Head(str)) = LowerChar(Head(pat)))
                /\ Like(Tail(str), Tail(pat))

\* The rows that .ilike('question', q) selects
ExactRows == {i \in DOMAIN store : Like(store[i].question, ToLowerCase(query))}

\* data[0].answer || data[0].content
AnswerOrContent(e) == IF e.answer # "" THEN e.answer ELSE e.content

\* A store and a query
LookupInit ==
  /\ store \in Stores
  /\ query \in Strings
  /\ lookupPc = "start"
  /\ lookupRow = 0
  /\ lookupResult = NoResult
  /\ added = NotAdded
  /\ GovIdle
  /\ SearchIdle
  /\ ResolveIdle
  /\ HandlerIdle
  /\ FindIdle
  /\ DefaultIdle
  /\ WriteIdle
  /\ LoadIdle
  /\ FetchIdle
  /\ FlightIdle

\* The select of lines 76-80 returns: with .limit(1) and no order clause the
\* store hands back any one of the rows that match, or none if none matches
ExactSelect ==
  /\ lookupPc = "start"
  /\ lookupPc' = "selected"
  /\ IF ExactRows = {}
       THEN lookupRow' = 0
       ELSE lookupRow' \in ExactRows
  /\ UNCHANGED <<store, query, lookupResult, added>>
  /\ UNCHANGED nonLookupVars

\* Lines 83-86 and 710-715: a row was returned; findInSupabase returns its
\* answer or content and enhancedFindAnswer makes it the result if it is
\* not empty.  Otherwise the lookup goes on after the exact stage.
ExactReturn ==
  /\ lookupPc = "selected"
  /\ lookupPc' = "done"
  /\ lookupResult' =
       IF lookupRow # 0 /\ AnswerOrContent(store[lookupRow]) # ""
         THEN [source |-> "knowledge_base", stage |-> "exact",
               text |-> AnswerOrContent(store[lookupRow])]
         ELSE [source |-> "other", stage |-> "later", text |-> ""]
  /\ UNCHANGED <<store, query, lookupRow, added>>
  /\ UNCHANGED nonLookupVars

LookupNext ==
  \/ ExactSelect
  \/ ExactReturn

LookupSpec == LookupInit /\ [][LookupNext]_vars

(***************************************************************************)
(* /add: addKnowledge('question || answer') (lines 242-305) on a table     *)
(* that earlier /add commands have filled, followed by a kb-first lookup   *)
(* of the question in some letter case.                                    *)
(***************************************************************************)

\* The tables /add can have filled: no two questions equal, letter case aside
AddedStores ==
  {st \in UNION {[1..n -> [question : Strings, answer : {"x", "y"}, content : {"x", "y"}]]
                   : n \in 0..MaxEntries} :
     /\ \A i \in DOMAIN st : st[i].content = st[i].answer
     /\ \A i, j \in DOMAIN st :
          ToLowerCase(st[i].question) = ToLowerCase(st[j].question) => i = j}

\* A table and the query that will be looked up once the question is added
AddInit ==
  /\ store \in AddedStores
  /\ query \in Strings
  /\ lookupPc = "add"
  /\ lookupRow = 0
  /\ lookupResult = NoResult
  /\ added = NotAdded
  /\ GovIdle
  /\ SearchIdle
  /\ ResolveIdle
  /\ HandlerIdle
  /\ FindIdle
  /\ DefaultIdle
  /\ WriteIdle
  /\ LoadIdle
  /\ FetchIdle
  /\ FlightIdle

\* The rows that .ilike('question', question) of the existence check selects
ExistingRows(question) == {i \in DOMAIN store : Like(store[i].question, question)}

\* addKnowledge succeeds for a question of 2 characters or more: with
\* .limit(1) the existence check returns any one row that matches; its
\* answer and content are replaced, or, if there is none, a row is inserted
AddKnowledge(question, answer) ==
  /\ lookupPc = "add"
  /\ Len(question) >= 2
  /\ ToLowerCase(question) = ToLowerCase(query)
  /\ IF ExistingRows(question) = {}
       THEN store' = Append(store, [question |-> question, answer |-> answer,
                                    content |-> answer])
       ELSE \E i \in ExistingRows(question) :
              store' = [store EXCEPT ![i].answer = answer, ![i].content = answer]
  /\ added' = [done |-> TRUE, question |-> question, answer |-> answer, before |-> store]
  /\ lookupPc' = "start"
  /\ UNCHANGED <<query, lookupRow, lookupResult>>
  /\ UNCHANGED nonLookupVars

AddNext ==
  \/ \E question \in Strings, answer \in {"x", "y"} : AddKnowledge(question, answer)
  \/ ExactSelect
  \/ ExactReturn

AddSpec == AddInit /\ [][AddNext]_vars

(***************************************************************************)
(* /add commands in flight together: each addKnowledge call (lines         *)
(* 245-305) parses and validates its input, awaits the existence check,    *)
(* then awaits the update or the insert.  Other calls run at each await.   *)
(***************************************************************************)

\* What parsing 'question || answer' can give for the question: nothing, or
\* a string
AddQuestions == {<<>>} \cup Strings

\* What parsing can give for the answer: nothing, one character, or more
AddAnswers == {<<>>, <<"x">>, <<"x", "y">>, <<"y", "y">>}

WriteInit ==
  /\ WriteIdle
  /\ GovIdle
  /\ SearchIdle
  /\ LookupIdle
  /\ ResolveIdle
  /\ HandlerIdle
  /\ FindIdle
  /\ DefaultIdle
  /\ LoadIdle
  /\ FetchIdle
  /\ FlightIdle

\* Mutant of Invalid: only the question is validated
InvalidQuestionOnly(question, answer) == Len(question) < 2

\* if (!question || question.length < 2) throw ...;
\* if (!answer || answer.length < 2) throw ...
Invalid(question, answer) == Len(question) < 2 \/ Len(answer) < 2

\* addKnowledge up to its first await: the input is parsed and validated, and
\* the existence check is sent
AddKnowledgeStart(c, question, answer) ==
  /\ adds[c].pc = "idle"
  /\ adds' = [adds EXCEPT ![c] = [pc |-> IF Invalid(question, answer)
                                           THEN "invalid" ELSE "select",
                                  question |-> question, answer |-> answer,
                                  existing |-> 0]]
  /\ UNCHANGED knowledge_base
  /\ UNCHANGED nonWriteVars

\* The rows that .ilike('question', question) selects
ExistingIds(question) ==
  {i \in DOMAIN knowledge_base : Like(knowledge_base[i].question, question)}

\* The store answers .select('id, question').ilike('question', question)
\* .limit(1): any one of the rows that match, or none
AddKnowledgeSelect(c) ==
  /\ adds[c].pc = "select"
  /\ \E i \in IF ExistingIds(adds[c].question) = {}
                THEN {0} ELSE ExistingIds(adds[c].question) :
       adds' = [adds EXCEPT ![c].pc = "write", ![c].existing = i]
  /\ UNCHANGED knowledge_base
  /\ UNCHANGED nonWriteVars

\* if (existing && existing.length > 0) update({answer, content: answer})
\* .eq('id', existing[0].id) else insert([{question, answer, content: answer}])
AddKnowledgeWrite(c) ==
  /\ adds[c].pc = "write"
  /\ knowledge_base' =
       IF adds[c].existing > 0
         THEN [knowledge_base EXCEPT ![adds[c].existing].answer = adds[c].answer,
                                     ![adds[c].existing].content = adds[c].answer]
         ELSE Append(knowledge_base, [question |-> adds[c].question,
                                      answer |-> adds[c].answer,
                                      content |-> adds[c].answer])
  /\ adds' = [adds EXCEPT ![c].pc = "done"]
  /\ UNCHANGED nonWriteVars

\* The update or the insert fails: if (error) throw error
AddKnowledgeWriteFails(c) ==
  /\ adds[c].pc = "write"
  /\ adds' = [adds EXCEPT ![c].pc = "failed"]
  /\ UNCHANGED knowledge_base
  /\ UNCHANGED nonWriteVars

WriteNext ==
  \/ \E c \in Adders, question \in AddQuestions, answer \in AddAnswers :
       AddKnowledgeStart(c, question, answer)
  \/ \E c \in Adders : AddKnowledgeSelect(c)
  \/ \E c \in Adders : AddKnowledgeWrite(c)
  \/ \E c \in Adders : AddKnowledgeWriteFails(c)

WriteSpec == WriteInit /\ [][WriteNext]_vars

(***************************************************************************)
(* loadTranscriber (lines 543-581).  Each call runs the loader inside      *)
(* processWithTimeout with a 60 s timer; the calls are taken to be         *)
(* admitted.  A call whose timer fires is settled with the timeout error   *)
(* and its loader goes on.                                                 *)
(***************************************************************************)

LoadInit ==
  /\ LoadIdle
  /\ GovIdle
  /\ SearchIdle
  /\ LookupIdle
  /\ ResolveIdle
  /\ HandlerIdle
  /\ FindIdle
  /\ DefaultIdle
  /\ WriteIdle
  /\ FetchIdle
  /\ FlightIdle

\* The loader of call c up to its first await or its return
LoadTranscriber(c) ==
  /\ loadCalls[c].pc = "idle"
  /\ IF transcriber # "null"
       THEN /\ loadCalls' = [loadCalls EXCEPT ![c] = [pc |-> "returned",
                                                      outcome |-> "transcriber"]]
            /\ UNCHANGED <<isModelLoading, modelLoadQueue, loads>>
       ELSE IF isModelLoading
              THEN /\ modelLoadQueue' = Append(modelLoadQueue, c)
                   /\ loadCalls' = [loadCalls EXCEPT ![c].pc = "parked"]
                   /\ UNCHANGED <<isModelLoading, loads>>
              ELSE /\ isModelLoading' = TRUE
                   /\ loads' = [started |-> loads.started + 1,
                                running |-> loads.running + 1]
                   /\ loadCalls' = [loadCalls EXCEPT ![c].pc = "loading"]
                   /\ UNCHANGED modelLoadQueue
  /\ UNCHANGED transcriber
  /\ UNCHANGED nonLoadVars

\* await pipeline(...) returns in call c: transcriber is set, the parked
\* calls are resolved with it, the loader returns it; finally
\* isModelLoading = false
PipelineReturns(c) ==
  /\ loadCalls[c].pc = "loading"
  /\ transcriber' = "pipeline"
  /\ modelLoadQueue' = <<>>
  /\ isModelLoading' = FALSE
  /\ loads' = [loads EXCEPT !.running = @ - 1]
  /\ loadCalls' = [d \in Loaders |->
                     IF d = c \/ d \in Range(modelLoadQueue)
                       THEN [pc |-> "returned",
                             outcome |-> Settle(loadCalls[d].outcome, "transcriber")]
                       ELSE loadCalls[d]]
  /\ UNCHANGED nonLoadVars

\* await pipeline(...) throws in call c: catch (err) { throw err } finally
\* { isModelLoading = false }; modelLoadQueue is not touched
PipelineThrows(c) ==
  /\ loadCalls[c].pc = "loading"
  /\ isModelLoading' = FALSE
  /\ loads' = [loads EXCEPT !.running = @ - 1]
  /\ loadCalls' = [loadCalls EXCEPT ![c] = [pc |-> "returned",
                                            outcome |-> Settle(@.outcome, "error")]]
  /\ UNCHANGED <<transcriber, modelLoadQueue>>
  /\ UNCHANGED nonLoadVars

\* The 60 s timer of processWithTimeout fires for call c, whose loader is at
\* an await: the caller gets the timeout error
LoadTimesOut(c) ==
  /\ loadCalls[c].pc \in {"loading", "parked"}
  /\ loadCalls[c].outcome = "pending"
  /\ loadCalls' = [loadCalls EXCEPT ![c].outcome = "timeout"]
  /\ UNCHANGED <<transcriber, isModelLoading, modelLoadQueue, loads>>
  /\ UNCHANGED nonLoadVars

LoadNext ==
  \/ \E c \in Loaders : LoadTranscriber(c)
  \/ \E c \in Loaders : PipelineReturns(c)
  \/ \E c \in Loaders : PipelineThrows(c)
  \/ \E c \in Loaders : LoadTimesOut(c)

LoadSpec == LoadInit /\ [][LoadNext]_vars

(***************************************************************************)
(* fetchWithRetry(url, options, attempts, timeoutMs) (src/bot.js, lines    *)
(* 365-385).  The fields of fetchCall:                                     *)
(*   pc       "fetch"    at `await fetch(...)` of attempt i                *)
(*            "wait"     at `await new Promise(r => setTimeout(r, ...))`   *)
(*            "returned" returned res; "thrown" threw err;                 *)
(*            "ended"    left the for loop and returned undefined          *)
(*   fetches  the number of fetch calls made                               *)
(*   waits    the delays of the setTimeout calls of line 382, in ms        *)
(*   errors   the errors caught, each with its attempt and its kind        *)
(*   response the attempt whose response was returned, 0 for none          *)
(*   thrown   the error thrown to the caller                               *)
(***************************************************************************)

\* How an attempt can fail: the response is not ok (line 372), fetch rejects,
\* or the abort timer of line 368 fires
FailureKinds == {"status", "network", "abort"}

\* A call with the attempts the callers give it (line 604 gives 3, the
\* default is 3)
FetchInit ==
  /\ \E attempts \in 1..MaxAttempts :
       fetchCall = [pc |-> "fetch", attempts |-> attempts, i |-> 1, fetches |-> 0,
                    waits |-> <<>>, errors |-> <<>>, response |-> 0, thrown |-> NoError]
  /\ GovIdle
  /\ SearchIdle
  /\ LookupIdle
  /\ ResolveIdle
  /\ HandlerIdle
  /\ FindIdle
  /\ DefaultIdle
  /\ WriteIdle
  /\ LoadIdle
  /\ FlightIdle

\* Mutant of IsLast: the last attempt is taken to be the one before it
IsLastOffByOne(i, attempts) == i = attempts - 1

\* const isLast = i === attempts
IsLast(i, attempts) == i = attempts

\* Attempt i gets a response with res.ok: clearTimeout(id); return res
FetchOk ==
  /\ fetchCall.pc = "fetch"
  /\ fetchCall' = [fetchCall EXCEPT !.pc = "returned", !.fetches = @ + 1,
                                    !.response = fetchCall.i]
  /\ UNCHANGED nonFetchVars

\* Attempt i fails: the catch block throws the error if the attempt is the
\* last, and otherwise starts the timer of 1000 * i ms
FetchFails(kind) ==
  /\ fetchCall.pc = "fetch"
  /\ LET err == [attempt |-> fetchCall.i, kind |-> kind]
     IN fetchCall' =
          IF IsLast(fetchCall.i, fetchCall.attempts)
            THEN [fetchCall EXCEPT !.pc = "thrown", !.fetches = @ + 1,
                                   !.errors = Append(@, err), !.thrown = err]
            ELSE [fetchCall EXCEPT !.pc = "wait", !.fetches = @ + 1,
                                   !.errors = Append(@, err),
                                   !.waits = Append(@, 1000 * fetchCall.i)]
  /\ UNCHANGED nonFetchVars

\* The timer of line 382 fires: i++, and the loop goes on while i <= attempts
WaitEnds ==
  /\ fetchCall.pc = "wait"
  /\ fetchCall' = [fetchCall EXCEPT !.i = @ + 1,
                                    !.pc = IF fetchCall.i + 1 <= fetchCall.attempts
                                             THEN "fetch" ELSE "ended"]
  /\ UNCHANGED nonFetchVars

FetchNext ==
  \/ FetchOk
  \/ \E kind \in FailureKinds : FetchFails(kind)
  \/ WaitEnds

FetchSpec == FetchInit /\ [][FetchNext]_vars

(***************************************************************************)
(* One enhancedFindAnswer(query, useAI) call (lines 662-757) with          *)
(* findInSupabase (67-162) and queryGroqAI (476-518).  What the store      *)
(* answers to the select of each stage and what the LLM endpoint answers   *)
(* are inputs:                                                             *)
(*   kb[i]  "none"   the select of stage i returns no row (for the synonym *)
(*                   stage also: the query matches no table entry; for the *)
(*                   fuzzy stage also: no row scores above 0.3)            *)
(*          "hit"    it returns a row and the row has text                 *)
(*          "empty"  it returns a row whose answer (stage 2), or answer    *)
(*                   and content (stages 1, 3), is empty or null           *)
(*          "error"  the store fails: supabase-js returns                  *)
(*                   { data: null, error }                                 *)
(*   llm    "answer" / "nothing" (no choices[0].message.content) /         *)
(*          "error" (axios.post throws)                                    *)
(* The two processWithTimeout calls settle as the governor lets them: with *)
(* the shutting-down error before the operation starts, with the timeout   *)
(* error while it runs, or with the operation's own outcome.               *)
(***************************************************************************)

\* An enhancedFindAnswer call in any surroundings.  A row matched by the
\* content stage has a non-empty answer or content (line 147); without a
\* store or an API key the answers of the store or of the LLM do not matter.
ResolveInit ==
  /\ resolveEnv \in Environments
  /\ resolveEnv.kb[4] # "empty"
  /\ ~resolveEnv.supabaseAvailable => resolveEnv.kb = [i \in 1..4 |-> "none"]
  /\ ~resolveEnv.groqEnabled => resolveEnv.llm = "nothing"
  /\ resolvePc = "start"
  /\ fis = [pc |-> 0, value |-> "none", stage |-> 0]
  /\ kbOutcome = "pending"
  /\ llmCall = [pc |-> "idle", outcome |-> "pending", context |-> FALSE]
  /\ consulted = {}
  /\ result = NoResult
  /\ handlerReply = "none"
  /\ GovIdle
  /\ SearchIdle
  /\ LookupIdle
  /\ HandlerIdle
  /\ FindIdle
  /\ DefaultIdle
  /\ WriteIdle
  /\ LoadIdle
  /\ FetchIdle
  /\ FlightIdle

\* return { source: 'default', answer: getDefaultResponse(query) }
DefaultResult == [source |-> "default", stage |-> "default", text |-> "default response"]

\* Lines 721-751 (and 664-694): the LLM part starts if GROQ_CONFIG.enabled,
\* with the context select if supabaseAvailable; otherwise the default
\* response is returned
ToLlmPart ==
  IF resolveEnv.groqEnabled
    THEN /\ resolvePc' = IF resolveEnv.supabaseAvailable THEN "context" ELSE "llm"
         /\ result' = result
    ELSE /\ resolvePc' = "done"
         /\ result' = DefaultResult

\* Mutant of EnterResolve: the useAI flag is not looked at
EnterResolveIgnoringMode ==
  IF resolveEnv.supabaseAvailable
    THEN resolvePc' = "kb" /\ result' = result
    ELSE ToLlmPart

\* Lines 663-702: the branch at the entry of enhancedFindAnswer
EnterResolve ==
  IF resolveEnv.useAI
    THEN ToLlmPart
    ELSE IF resolveEnv.supabaseAvailable
           THEN resolvePc' = "kb" /\ result' = result
           ELSE ToLlmPart

\* enhancedFindAnswer is called
EnhancedFindAnswer ==
  /\ resolvePc = "start"
  /\ EnterResolve
  /\ UNCHANGED <<resolveEnv, fis, kbOutcome, llmCall, consulted, handlerReply>>
  /\ UNCHANGED nonResolveVars

\* processWithTimeout(() => findInSupabase(query), ..., 10000) is admitted, at
\* once or after waiting in the queue: findInSupabase starts
KbAdmitted ==
  /\ resolvePc = "kb"
  /\ kbOutcome = "pending"
  /\ fis.pc = 0
  /\ fis' = [fis EXCEPT !.pc = 1]
  /\ UNCHANGED <<resolveEnv, resolvePc, kbOutcome, llmCall, consulted, result, handlerReply>>
  /\ UNCHANGED nonResolveVars

\* processWithTimeout throws 'Bot is shutting down' (line 435), or the queue
\* promise of the parked call is rejected (line 1667): findInSupabase never runs
KbRejected ==
  /\ resolvePc = "kb"
  /\ kbOutcome = "pending"
  /\ fis.pc = 0
  /\ kbOutcome' = Settle(kbOutcome, "shutdown")
  /\ UNCHANGED <<resolveEnv, resolvePc, fis, llmCall, consulted, result, handlerReply>>
  /\ UNCHANGED nonResolveVars

\* The 10 s timer of the call fires while findInSupabase runs, which goes on
KbTimerFires ==
  /\ kbOutcome = "pending"
  /\ fis.pc \in 1..4
  /\ kbOutcome' = Settle(kbOutcome, "timeout")
  /\ UNCHANGED <<resolveEnv, resolvePc, fis, llmCall, consulted, result, handlerReply>>
  /\ UNCHANGED nonResolveVars

\* findInSupabase returns v, found by stage i (0: by none)
FisReturns(v, i) == [pc |-> 5, value |-> v, stage |-> i]

\* What findInSupabase does when the select of stage i fails.  Stage 1:
\* if (error) throw error (line 82), caught at line 158: return null.  Stages
\* 2 to 4 destructure data only (lines 90, 103, 144): null data is no match.
AfterFailure(i) == IF i = 1 THEN "return null" ELSE "no match"

\* findInSupabase goes on after stage i found no match
NextStage(i) == IF i < 4 THEN [fis EXCEPT !.pc = i + 1] ELSE FisReturns("null", 0)

\* The select of stage i of findInSupabase is made and answered
Stage(i) ==
  /\ fis.pc = i
  /\ consulted' = consulted \cup {i}
  /\ fis' = CASE resolveEnv.kb[i] = "hit"   -> FisReturns("text", i)
              [] resolveEnv.kb[i] = "empty" -> FisReturns("empty", i)
              [] resolveEnv.kb[i] = "error" ->
                   IF AfterFailure(i) = "return null"
                     THEN FisReturns("null", 0)
                     ELSE NextStage(i)
              [] OTHER -> NextStage(i)
  /\ kbOutcome' = IF fis'.pc = 5 THEN Settle(kbOutcome, "result") ELSE kbOutcome
  /\ UNCHANGED <<resolveEnv, resolvePc, llmCall, result, handlerReply>>
  /\ UNCHANGED nonResolveVars

\* Lines 76-86
ExactStage == Stage(1)

\* Lines 88-101
SynonymStage == Stage(2)

\* Lines 103-142
FuzzyStage == Stage(3)

\* Lines 144-157
ContentStage == Stage(4)

\* Mutant of AfterKbCall: no try/catch around the knowledge-base call
AfterKbCallNoCatch ==
  IF kbOutcome = "result"
    THEN IF fis.value = "text"
           THEN /\ resolvePc' = "done"
                /\ result' = [source |-> "knowledge_base", stage |-> StageName[fis.stage],
                              text |-> "kb text"]
           ELSE ToLlmPart
    ELSE /\ resolvePc' = "done"
         /\ result' = [source |-> "thrown", stage |-> "none", text |-> ""]

\* Lines 704-718: kbAnswer = await processWithTimeout(...); a truthy kbAnswer
\* is returned with source 'knowledge_base'; an error is caught and logged
AfterKbCall ==
  IF kbOutcome = "result" /\ fis.value = "text"
    THEN /\ resolvePc' = "done"
         /\ result' = [source |-> "knowledge_base", stage |-> StageName[fis.stage],
                       text |-> "kb text"]
    ELSE ToLlmPart

\* The await of line 704 resumes
KbCallSettled ==
  /\ resolvePc = "kb"
  /\ kbOutcome # "pending"
  /\ AfterKbCall
  /\ UNCHANGED <<resolveEnv, fis, kbOutcome, llmCall, consulted, handlerReply>>
  /\ UNCHANGED nonResolveVars

\* Lines 667-681 and 724-738: the select of up to two snippets for the prompt,
\* made outside the governor; its failure is caught and leaves context null
FetchContext ==
  /\ resolvePc = "context"
  /\ resolvePc' = "llm"
  /\ llmCall' = [llmCall EXCEPT !.context = TRUE]
  /\ UNCHANGED <<resolveEnv, fis, kbOutcome, consulted, result, handlerReply>>
  /\ UNCHANGED nonResolveVars

\* queryGroqAI: processWithTimeout admits the operation, which posts the
\* request to the endpoint
LlmAdmitted ==
  /\ resolvePc = "llm"
  /\ llmCall.pc = "idle"
  /\ llmCall.outcome = "pending"
  /\ llmCall' = [llmCall EXCEPT !.pc = "running"]
  /\ consulted' = consulted \cup {5}
  /\ UNCHANGED <<resolveEnv, resolvePc, fis, kbOutcome, result, handlerReply>>
  /\ UNCHANGED nonResolveVars

\* queryGroqAI: processWithTimeout throws or rejects with the shutting-down
\* error; no request is posted
LlmRejected ==
  /\ resolvePc = "llm"
  /\ llmCall.pc = "idle"
  /\ llmCall.outcome = "pending"
  /\ llmCall' = [llmCall EXCEPT !.outcome = Settle(@, "shutdown")]
  /\ UNCHANGED <<resolveEnv, resolvePc, fis, kbOutcome, consulted, result, handlerReply>>
  /\ UNCHANGED nonResolveVars

\* The timer of queryGroqAI's call fires while the request is outstanding
LlmTimerFires ==
  /\ llmCall.pc = "running"
  /\ llmCall.outcome = "pending"
  /\ llmCall' = [llmCall EXCEPT !.outcome = Settle(@, "timeout")]
  /\ UNCHANGED <<resolveEnv, resolvePc, fis, kbOutcome, consulted, result, handlerReply>>
  /\ UNCHANGED nonResolveVars

\* Lines 488-516: axios.post returns or throws; the operation returns the
\* content, returns null, or throws again
LlmOperationEnds ==
  /\ llmCall.pc = "running"
  /\ llmCall' = [pc |-> "ended", context |-> llmCall.context,
                 outcome |-> Settle(llmCall.outcome,
                                    IF resolveEnv.llm = "error" THEN "operror" ELSE "result")]
  /\ UNCHANGED <<resolveEnv, resolvePc, fis, kbOutcome, consulted, result, handlerReply>>
  /\ UNCHANGED nonResolveVars

\* Mutant of AfterLlmCall: no try/catch around queryGroqAI
AfterLlmCallNoCatch ==
  IF llmCall.outcome = "result"
    THEN IF resolveEnv.llm = "answer"
           THEN result' = [source |-> "groq_ai", stage |-> "llm", text |-> "ai text"]
           ELSE result' = DefaultResult
    ELSE result' = [source |-> "thrown", stage |-> "none", text |-> ""]

\* Lines 683-699 and 740-756: a truthy aiAnswer is returned with source
\* 'groq_ai'; otherwise, and after a caught error, the default response
AfterLlmCall ==
  IF llmCall.outcome = "result" /\ resolveEnv.llm = "answer"
    THEN result' = [source |-> "groq_ai", stage |-> "llm", text |-> "ai text"]
    ELSE result' = DefaultResult

\* The await of line 683 or 740 resumes
LlmCallSettled ==
  /\ resolvePc = "llm"
  /\ llmCall.outcome # "pending"
  /\ resolvePc' = "done"
  /\ AfterLlmCall
  /\ UNCHANGED <<resolveEnv, fis, kbOutcome, llmCall, consulted, handlerReply>>
  /\ UNCHANGED nonResolveVars

\* Lines 1522-1527 and 1606-1611: the handler's await of enhancedFindAnswer
\* resumes and the answer is sent with ctx.reply.  A rejection reaches the
\* catch of the voice handler (1536-1539) or, from the text handler, bot.catch
\* (1637-1643), which send 'Error processing ...' / 'An error occurred ...'
HandlerReplies ==
  /\ resolvePc = "done"
  /\ handlerReply = "none"
  /\ handlerReply' = IF result.source = "thrown" THEN "apology" ELSE "answer"
  /\ UNCHANGED <<resolveEnv, resolvePc, fis, kbOutcome, llmCall, consulted, result>>
  /\ UNCHANGED nonResolveVars

ResolveNext ==
  \/ EnhancedFindAnswer
  \/ KbAdmitted
  \/ KbRejected
  \/ KbTimerFires
  \/ ExactStage
  \/ SynonymStage
  \/ FuzzyStage
  \/ ContentStage
  \/ KbCallSettled
  \/ FetchContext
  \/ LlmAdmitted
  \/ LlmRejected
  \/ LlmTimerFires
  \/ LlmOperationEnds
  \/ LlmCallSettled
  \/ HandlerReplies

\* The event loop runs every job that is ready, and the governor and the
\* collaborators settle every call made
ResolveSpec == ResolveInit /\ [][ResolveNext]_vars /\ WF_vars(ResolveNext)

(***************************************************************************)
(* The voice and text handlers (lines 1475-1619) with processedMessages    *)
(* and the session flags they read, the mode toggles (1119-1157,           *)
(* 1335-1341), the document upload (1261-1265) and the 'doc_ask' button    *)
(* (1373-1376).  A handler runs from the delivery of the message to its    *)
(* last reply in one step.                                                 *)
(***************************************************************************)

\* Mutant of Record: when the Set is full the id just added is deleted
RecordEvictingNewest(m) ==
  /\ recentInserts' = IF Len(recentInserts) < MAX_PROCESSED_IDS
                        THEN Append(recentInserts, m)
                        ELSE Append(Tail(recentInserts), m)
  /\ IF Len(processedMessages) + 1 > MAX_PROCESSED_IDS
       THEN /\ processedMessages' = processedMessages
            /\ evictedIds' = evictedIds \cup {m}
       ELSE /\ processedMessages' = Append(processedMessages, m)
            /\ evictedIds' = evictedIds

\* processedMessages.add(messageId); if (processedMessages.size >
\* MAX_PROCESSED_IDS) processedMessages.delete(processedMessages.values()
\* .next().value): a Set iterates in insertion order
Record(m) ==
  /\ recentInserts' = IF Len(recentInserts) < MAX_PROCESSED_IDS
                        THEN Append(recentInserts, m)
                        ELSE Append(Tail(recentInserts), m)
  /\ IF Len(processedMessages) + 1 > MAX_PROCESSED_IDS
       THEN /\ processedMessages' = Append(Tail(processedMessages), m)
            /\ evictedIds' = evictedIds \cup {Head(processedMessages)}
       ELSE /\ processedMessages' = Append(processedMessages, m)
            /\ evictedIds' = evictedIds

\* Mutant of UseAI: an absent flag counts as set
UseAIUnlessOff(flag) == flag # "off"

\* ctx.session.voiceAIMode || false, ctx.session.textAIMode || false
UseAI(flag) == flag = "on"

\* enhancedFindAnswer(userText, useAI) is called for message m and its
\* answer is sent with ctx.reply
ResolveAndAnswer(m, useAI) ==
  /\ handled' = [handled EXCEPT ![m] = [calls |-> @.calls + 1, answers |-> @.answers + 1]]
  /\ lastCall' = [id |-> m, useAI |-> useAI]

\* bot.on('voice') for message m: the dedup check, then decoding and
\* transcription, which end with a text (ok) or with the error reply or the
\* 'Could not understand' reply, then the resolution
VoiceMessage(m) ==
  /\ Kind(m) = "voice"
  /\ delivered < MaxDeliveries
  /\ delivered' = delivered + 1
  /\ IF m \in Range(processedMessages)
       THEN UNCHANGED <<processedMessages, recentInserts, evictedIds, handled, lastCall>>
       ELSE /\ Record(m)
            /\ \E ok \in BOOLEAN :
                 IF ok
                   THEN ResolveAndAnswer(m, UseAI(session[Sender(m)].voiceAIMode))
                   ELSE UNCHANGED <<handled, lastCall>>
  /\ UNCHANGED <<session, modeCommands>>
  /\ UNCHANGED nonHandlerVars

\* bot.on('text') for message m, a text that is no command: the pending
\* document question (lines 1549-1587) is answered by queryGroqAI and returns
\* before the dedup check; otherwise the dedup check and the resolution
TextMessage(m) ==
  /\ Kind(m) = "text"
  /\ delivered < MaxDeliveries
  /\ delivered' = delivered + 1
  /\ IF session[Sender(m)].waitingForQuestion
       THEN /\ session' = [session EXCEPT ![Sender(m)].waitingForQuestion = FALSE,
                                          ![Sender(m)].documentText = FALSE,
                                          ![Sender(m)].documentName = FALSE,
                                          ![Sender(m)].documentTimestamp = FALSE]
            /\ handled' = [handled EXCEPT ![m].answers = @ + 1]
            /\ UNCHANGED <<processedMessages, recentInserts, evictedIds, lastCall>>
       ELSE /\ UNCHANGED session
            /\ IF m \in Range(processedMessages)
                 THEN UNCHANGED <<processedMessages, recentInserts, evictedIds,
                                  handled, lastCall>>
                 ELSE /\ Record(m)
                      /\ ResolveAndAnswer(m, UseAI(session[Sender(m)].textAIMode))
  /\ UNCHANGED modeCommands
  /\ UNCHANGED nonHandlerVars

\* What a toggle command for target and value asks for
Requested(u, target, value) ==
  [modeCommands EXCEPT
     ![u].voice = IF target \in {"voice", "both"} THEN value ELSE @,
     ![u].text = IF target \in {"text", "both"} THEN value ELSE @]

\* Mutant of ModeToggle: a toggle of the voice mode sets the text mode too
ModeToggleVoiceSetsText(u, target, value) ==
  /\ session' = [session EXCEPT
                   ![u].voiceAIMode = IF target \in {"voice", "both"} THEN value ELSE @,
                   ![u].textAIMode = IF target \in {"voice", "text", "both"} THEN value ELSE @]
  /\ modeCommands' = Requested(u, target, value)
  /\ UNCHANGED <<processedMessages, recentInserts, evictedIds, delivered, handled, lastCall>>
  /\ UNCHANGED nonHandlerVars

\* /voiceai on|off, /voiceaion, /voiceaioff (target voice) and the
\* mode_<target>_<mode> buttons: ctx.session.voiceAIMode and / or
\* ctx.session.textAIMode is set
ModeToggle(u, target, value) ==
  /\ session' = [session EXCEPT
                   ![u].voiceAIMode = IF target \in {"voice", "both"} THEN value ELSE @,
                   ![u].textAIMode = IF target \in {"text", "both"} THEN value ELSE @]
  /\ modeCommands' = Requested(u, target, value)
  /\ UNCHANGED <<processedMessages, recentInserts, evictedIds, delivered, handled, lastCall>>
  /\ UNCHANGED nonHandlerVars

\* bot.on('document'): the text of the document is kept in the session
DocumentUpload(u) ==
  /\ ~session[u].documentText
  /\ session' = [session EXCEPT ![u].documentText = TRUE, ![u].documentName = TRUE,
                                 ![u].documentTimestamp = TRUE]
  /\ UNCHANGED <<processedMessages, recentInserts, evictedIds, delivered, handled, lastCall,
                 modeCommands>>
  /\ UNCHANGED nonHandlerVars

\* The 'doc_ask' button: ctx.session.waitingForQuestion = true
DocAsk(u) ==
  /\ session[u].documentText
  /\ ~session[u].waitingForQuestion
  /\ session' = [session EXCEPT ![u].waitingForQuestion = TRUE]
  /\ UNCHANGED <<processedMessages, recentInserts, evictedIds, delivered, handled, lastCall,
                 modeCommands>>
  /\ UNCHANGED nonHandlerVars

\* The 'doc_summarize', 'doc_save' and 'doc_extract' buttons, pressed while
\* the session holds a document text: the reply is sent and the three
\* document fields are deleted; waitingForQuestion is not written
DocButton(u, button) ==
  /\ session[u].documentText
  /\ session' = [session EXCEPT ![u].documentText = FALSE, ![u].documentName = FALSE,
                                 ![u].documentTimestamp = FALSE]
  /\ UNCHANGED <<processedMessages, recentInserts, evictedIds, delivered, handled, lastCall,
                 modeCommands>>
  /\ UNCHANGED nonHandlerVars

\* The buttons of the document menu that end the document
DocButtons == {"doc_summarize", "doc_save", "doc_extract"}

\* The state when the bot has started: nothing else is running
HandlerInit ==
  /\ HandlerIdle /\ GovIdle /\ SearchIdle /\ LookupIdle /\ ResolveIdle
  /\ FindIdle /\ DefaultIdle
  /\ WriteIdle
  /\ LoadIdle
  /\ FetchIdle
  /\ FlightIdle

HandlerNext ==
  \/ \E m \in MsgIds : VoiceMessage(m)
  \/ \E m \in MsgIds : TextMessage(m)
  \/ \E u \in Users, target \in {"voice", "text", "both"}, value \in {"on", "off"} :
       ModeToggle(u, target, value)
  \/ \E u \in Users : DocumentUpload(u)
  \/ \E u \in Users : DocAsk(u)
  \/ \E u \in Users, button \in DocButtons : DocButton(u, button)

HandlerSpec ==
  /\ HandlerInit
  /\ [][HandlerNext]_vars

\* The handlers while no user toggles a mode: the toggles write the two mode
\* flags only, and processedMessages is written by the message handlers only
DedupNext ==
  \/ \E m \in MsgIds : VoiceMessage(m)
  \/ \E m \in MsgIds : TextMessage(m)
  \/ \E u \in Users : DocumentUpload(u)
  \/ \E u \in Users : DocAsk(u)
  \/ \E u \in Users, button \in DocButtons : DocButton(u, button)

DedupSpec ==
  /\ HandlerInit
  /\ [][DedupNext]_vars

\* The document handlers and the text handler: uploads, the buttons of the
\* document menu and text messages
DocNext ==
  \/ \E m \in MsgIds : TextMessage(m)
  \/ \E u \in Users : DocumentUpload(u)
  \/ \E u \in Users : DocAsk(u)
  \/ \E u \in Users, button \in DocButtons : DocButton(u, button)

DocSpec ==
  /\ HandlerInit
  /\ [][DocNext]_vars

\* Mutant of DedupStep: the id is not recorded before the first await
DedupStepRecordsLater(m) ==
  IF m \in Range(processedMessages)
    THEN /\ processing' = [processing EXCEPT ![m].arrived = @ + 1]
         /\ UNCHANGED <<processedMessages, recentInserts, evictedIds>>
    ELSE /\ processing' = [processing EXCEPT ![m].arrived = @ + 1, ![m].running = @ + 1]
         /\ UNCHANGED <<processedMessages, recentInserts, evictedIds>>

\* The synchronous head of a handler (lines 1479-1489 and 1589-1598):
\* if (processedMessages.has(messageId)) return; processedMessages.add(...)
\* with the eviction; the handler then goes on to its first await
DedupStep(m) ==
  IF m \in Range(processedMessages)
    THEN /\ processing' = [processing EXCEPT ![m].arrived = @ + 1]
         /\ UNCHANGED <<processedMessages, recentInserts, evictedIds>>
    ELSE /\ processing' = [processing EXCEPT ![m].arrived = @ + 1, ![m].running = @ + 1]
         /\ Record(m)

\* A delivery of voice message m: bot.on('voice') up to `await ctx.reply`
VoiceArrives(m) ==
  /\ Kind(m) = "voice"
  /\ delivered < MaxDeliveries
  /\ delivered' = delivered + 1
  /\ DedupStep(m)
  /\ UNCHANGED <<session, handled, lastCall, modeCommands>>
  /\ UNCHANGED <<govVars, searchVars, lookupVars, resolveVars, findVars, defaultVars,
                 writeVars, loadVars, fetchVars>>

\* A delivery of text message m, no document question pending: bot.on('text')
\* up to its first await (saveTranscript or enhancedFindAnswer)
TextArrives(m) ==
  /\ Kind(m) = "text"
  /\ ~session[Sender(m)].waitingForQuestion
  /\ delivered < MaxDeliveries
  /\ delivered' = delivered + 1
  /\ DedupStep(m)
  /\ UNCHANGED <<session, handled, lastCall, modeCommands>>
  /\ UNCHANGED <<govVars, searchVars, lookupVars, resolveVars, findVars, defaultVars,
                 writeVars, loadVars, fetchVars>>

\* The rest of a handler that is at an await.  It calls enhancedFindAnswer
\* and sends the answer (ok), or it fails before that: the voice handler
\* catches the error and sends the error reply, an error in the text handler
\* goes to bot.catch.  Neither path writes processedMessages.
ProcessingEnds(m, ok) ==
  /\ processing[m].running > 0
  /\ IF ok
       THEN /\ processing' = [processing EXCEPT ![m].running = @ - 1]
            /\ ResolveAndAnswer(m, UseAI(IF Kind(m) = "voice"
                                           THEN session[Sender(m)].voiceAIMode
                                           ELSE session[Sender(m)].textAIMode))
       ELSE /\ processing' = [processing EXCEPT ![m].running = @ - 1,
                                                  ![m].failed = @ + 1]
            /\ UNCHANGED <<handled, lastCall>>
  /\ UNCHANGED <<processedMessages, recentInserts, evictedIds, session, delivered,
                 modeCommands>>
  /\ UNCHANGED <<govVars, searchVars, lookupVars, resolveVars, findVars, defaultVars,
                 writeVars, loadVars, fetchVars>>

RedeliveryNext ==
  \/ \E m \in MsgIds : VoiceArrives(m)
  \/ \E m \in MsgIds : TextArrives(m)
  \/ \E m \in MsgIds, ok \in BOOLEAN : ProcessingEnds(m, ok)

\* Deliveries and redeliveries of messages whose handlers run interleaved
RedeliverySpec ==
  /\ HandlerInit
  /\ [][RedeliveryNext]_vars

\* The text handler beside the governor.  bot.on('text') is registered (line
\* 1542) before the busy/restart middleware (lines 1623-1635) and does not
\* call next(): a text update reaches the handler whatever isShuttingDown
\* and activeRequests are.
GateNext ==
  \/ Call
  \/ Recheck
  \/ OperationReturns
  \/ GracefulShutdown
  \/ \E m \in MsgIds : TextMessage(m)

GateSpec ==
  /\ HandlerInit
  /\ [][GateNext]_vars

\* The handlers while no user uploads a document: the document handlers
\* write no mode flag
ModeNext ==
  \/ \E m \in MsgIds : VoiceMessage(m)
  \/ \E m \in MsgIds : TextMessage(m)
  \/ \E u \in Users, target \in {"voice", "text", "both"}, value \in {"on", "off"} :
       ModeToggle(u, target, value)

ModeSpec ==
  /\ HandlerInit
  /\ [][ModeNext]_vars

(***************************************************************************)
(* findInSupabase (lines 67-162) on strings of characters: the exact, the  *)
(* synonym, the fuzzy and the content stage, with the score of lines       *)
(* 110-132 and calculateWordOverlap (164-175).  The store answers every    *)
(* select; a stage that finds nothing hands over to the next.              *)
(***************************************************************************)

\* The words the questions and queries of this part are made of
Words == {<<"a", "b">>, <<"a", "b", "c">>, <<"b", "c", "d">>}

\* One word, or two words with a space between them
Phrases == Words \cup {w1 \o <<" ">> \o w2 : w1, w2 \in Words}

\* String.prototype.includes
Includes(str, part) ==
  \E i \in 0..(Len(str) - Len(part)) : SubSeq(str, i + 1, i + Len(part)) = part

\* String.prototype.startsWith
StartsWith(str, part) ==
  Len(part) <= Len(str) /\ SubSeq(str, 1, Len(part)) = part

\* String.prototype.endsWith
EndsWith(str, part) ==
  Len(part) <= Len(str) /\ SubSeq(str, Len(str) - Len(part) + 1, Len(str)) = part

\* str.split(' '): the pieces between the spaces, empty pieces included
RECURSIVE Split(_)
Split(str) ==
  IF \A i \in DOMAIN str : str[i] # " "
    THEN <<str>>
    ELSE LET i == CHOOSE k \in DOMAIN str :
                    str[k] = " " /\ \A j \in 1..(k - 1) : str[j] # " "
         IN <<SubSeq(str, 1, i - 1)>> \o Split(SubSeq(str, i + 1, Len(str)))

\* Is w.length > 2
LongWord(w) == Len(w) > 2

\* str.toLowerCase().split(/\s+/).filter(w => w.length > 2)
LongWords(str) == SelectSeq(Split(ToLowerCase(str)), LongWord)

\* calculateWordOverlap(str1, str2) as the fraction num / den
calculateWordOverlap(str1, str2) ==
  LET words1 == LongWords(str1)
      words2 == LongWords(str2)
      commonWords == {i \in DOMAIN words1 :
                        \E j \in DOMAIN words2 : \/ Includes(words2[j], words1[i])
                                                 \/ Includes(words1[i], words2[j])}
      larger == IF Len(words1) > Len(words2) THEN Len(words1) ELSE Len(words2)
  IN IF Len(words1) = 0 \/ Len(words2) = 0
       THEN [num |-> 0, den |-> 1]
       ELSE [num |-> Cardinality(commonWords), den |-> larger]

\* 1 for true and 0 for false
Bit(b) == IF b THEN 1 ELSE 0

\* The questions of the rows
RowQuestions ==
  {<<"a", "b">>, <<"A", "b", "c">>, <<"b", "c", "d", " ", "b", "c", "d">>,
   <<"a", "b", "c", " ", "b", "c", "d">>}

\* The answers of the rows
RowAnswers == {<<"x", "y">>, <<"a", "b", "c">>}

\* The rows that addKnowledge writes (lines 270-295): content is the answer
Rows == {[question |-> qu, answer |-> an, content |-> an] :
           qu \in RowQuestions, an \in RowAnswers}

\* The tables, with one row more than the fuzzy stage asks for
Tables == UNION {[1..n -> Rows] : n \in 0..(FUZZY_LIMIT + 1)}

\* SYNONYM_MAP (lines 38-58) cut down to two entries over the words of the
\* model, in the order of the object's keys
SYNONYM_MAP ==
  << [mainQuestion |-> <<"b", "c", "d">>,
      synonyms |-> {<<"a", "b", " ", "a", "b">>}],
     [mainQuestion |-> <<"a", "b", "c">>, synonyms |-> {<<"a", "b">>}] >>

\* item.answer || item.content || ''
AnswerText(item) == IF item.answer # <<>> THEN item.answer ELSE item.content

\* The larger of two numbers
Max(a, b) == IF a > b THEN a ELSE b

\* Mutant of Score: the score grows with the number of rows scored before
ScoreWithMemory(qq, question, answer) ==
  LET wordOverlap == calculateWordOverlap(qq, ToLowerCase(question))
      longer == Max(Len(question), Len(qq))
  IN [num |-> 200 * wordOverlap.num * longer + 100 * Len(scores),
      den |-> 100 * wordOverlap.den * longer]

\* totalScore of lines 110-132 for the query qq and a row, as the fraction
\* num / den: the six signals are 0 or 1, a fraction, 0 or 0.8, 0 or 0.6, a
\* fraction, and 0 or 0.5, and their weights are 3, 2, 1.5, 1, 0.5 and 0.3
Score(qq, question, answer) ==
  LET qu == ToLowerCase(question)
      exactContains == Bit(Includes(qu, qq) \/ Includes(qq, qu))
      wordOverlap == calculateWordOverlap(qq, qu)
      startsWith == Bit(StartsWith(qq, Split(qu)[1]))
      endsWith == Bit(EndsWith(qq, Split(qu)[Len(Split(qu))]))
      longer == Max(Len(qu), Len(qq))
      shorter == IF Len(qu) > Len(qq) THEN Len(qq) ELSE Len(qu)
      answerContains == Bit(Includes(ToLowerCase(answer), qq))
  IN [num |-> wordOverlap.den * longer *
                (300 * exactContains + 120 * startsWith + 60 * endsWith
                   + 15 * answerContains)
              + 200 * wordOverlap.num * longer
              + 50 * shorter * wordOverlap.den,
      den |-> 100 * wordOverlap.den * longer]

\* item.score > 0.3
AboveThreshold(score) == 10 * score.num > 3 * score.den

\* a.score > b.score
Greater(a, b) == a.num * b.den > b.num * a.den

\* A table and a query: findInSupabase starts with its exact stage
FindInit ==
  /\ table \in Tables
  /\ q \in Phrases
  /\ findPc = "exact"
  /\ allQuestions = <<>>
  /\ scores = <<>>
  /\ found = [stage |-> "none", text |-> <<>>]
  /\ GovIdle
  /\ SearchIdle
  /\ LookupIdle
  /\ ResolveIdle
  /\ HandlerIdle
  /\ DefaultIdle
  /\ WriteIdle
  /\ LoadIdle
  /\ FetchIdle
  /\ FlightIdle

\* Mutant of FindExact: the row that is returned loses its content
FindExactClearingContent ==
  /\ findPc = "exact"
  /\ LET data == {i \in DOMAIN table : Like(table[i].question, q)}
     IN IF data = {}
          THEN findPc' = "synonym" /\ found' = found /\ table' = table
          ELSE /\ findPc' = "done"
               /\ \E i \in data :
                    /\ found' = [stage |-> "exact", text |-> AnswerText(table[i])]
                    /\ table' = [table EXCEPT ![i].content = <<>>]
  /\ UNCHANGED <<q, allQuestions, scores>>
  /\ UNCHANGED nonFindVars

\* Lines 76-86: .ilike('question', q).limit(1) returns any one of the rows it
\* matches, and its answer is returned; no row, and the synonym stage is next
FindExact ==
  /\ findPc = "exact"
  /\ LET data == {i \in DOMAIN table : Like(table[i].question, q)}
     IN IF data = {}
          THEN findPc' = "synonym" /\ found' = found
          ELSE /\ findPc' = "done"
               /\ \E i \in data :
                    found' = [stage |-> "exact", text |-> AnswerText(table[i])]
  /\ UNCHANGED <<table, q, allQuestions, scores>>
  /\ UNCHANGED nonFindVars

\* synonyms.includes(q) || q.includes(mainQuestion), for entry k of the map
SynonymFires(k) ==
  q \in SYNONYM_MAP[k].synonyms \/ Includes(q, SYNONYM_MAP[k].mainQuestion)

\* .ilike('question', `%${mainQuestion}%`) for entry k of the map
SynonymRows(k) ==
  {i \in DOMAIN table :
     Includes(ToLowerCase(table[i].question), SYNONYM_MAP[k].mainQuestion)}

\* Lines 88-101: the loop over SYNONYM_MAP returns the answer of a row of the
\* first entry that fires and selects a row; .limit(1) returns any one
FindSynonym ==
  /\ findPc = "synonym"
  /\ LET hits == {k \in DOMAIN SYNONYM_MAP : SynonymFires(k) /\ SynonymRows(k) # {}}
     IN IF hits = {}
          THEN findPc' = "fuzzy" /\ found' = found
          ELSE LET k == CHOOSE k \in hits : \A h \in hits : k <= h
               IN /\ findPc' = "done"
                  /\ \E i \in SynonymRows(k) :
                       found' = [stage |-> "synonym", text |-> table[i].answer]
  /\ UNCHANGED <<table, q, allQuestions, scores>>
  /\ UNCHANGED nonFindVars

\* The sequences of n row numbers in rising order
RECURSIVE Fetches(_, _)
Fetches(n, from) ==
  IF n = 0
    THEN {<<>>}
    ELSE UNION {{<<i>> \o f : f \in Fetches(n - 1, i + 1)} : i \in from..Len(table)}

\* Lines 103-107: .select(...).not('question', 'is', null).limit(100) without
\* an order clause returns any FUZZY_LIMIT rows of a larger table, here in
\* table order
FuzzySelect ==
  /\ findPc = "fuzzy"
  /\ allQuestions' \in Fetches(IF Len(table) > FUZZY_LIMIT THEN FUZZY_LIMIT ELSE Len(table), 1)
  /\ findPc' = IF table = <<>> THEN "content" ELSE "score"
  /\ UNCHANGED <<table, q, scores, found>>
  /\ UNCHANGED nonFindVars

\* Lines 110-134: the map callback scores the next row of allQuestions
ScoreRow ==
  /\ findPc = "score"
  /\ Len(scores) < Len(allQuestions)
  /\ LET item == table[allQuestions[Len(scores) + 1]]
     IN scores' = Append(scores, Score(q, item.question, AnswerText(item)))
  /\ UNCHANGED <<table, q, findPc, allQuestions, found>>
  /\ UNCHANGED nonFindVars

\* The rows of allQuestions that pass .filter(item => item.score > 0.3)
Kept == {i \in DOMAIN scores : AboveThreshold(scores[i])}

\* sortedQuestions[0] after the stable .sort((a, b) => b.score - a.score):
\* the first of the kept rows that no kept row beats
Best ==
  CHOOSE i \in Kept :
    /\ \A j \in Kept : ~Greater(scores[j], scores[i])
    /\ \A j \in Kept : j < i => Greater(scores[j], scores[i]) \/ Greater(scores[i], scores[j])

\* Lines 136-142: the best row's answer is returned; nothing kept, and the
\* content stage is next
FuzzyRank ==
  /\ findPc = "score"
  /\ Len(scores) = Len(allQuestions)
  /\ IF Kept = {}
       THEN findPc' = "content" /\ found' = found
       ELSE /\ findPc' = "done"
            /\ found' = [stage |-> "fuzzy", text |-> AnswerText(table[allQuestions[Best]])]
  /\ UNCHANGED <<table, q, allQuestions, scores>>
  /\ UNCHANGED nonFindVars

\* .or(`answer.ilike.%${q}%,content.ilike.%${q}%`)
ContentRows ==
  {i \in DOMAIN table : \/ Includes(ToLowerCase(table[i].answer), q)
                        \/ Includes(ToLowerCase(table[i].content), q)}

\* Lines 144-157: of the rows whose answer or content holds q the one created
\* last is returned, and null if there is none
FindContent ==
  /\ findPc = "content"
  /\ findPc' = "done"
  /\ IF ContentRows = {}
       THEN found' = [stage |-> "none", text |-> <<>>]
       ELSE LET i == CHOOSE i \in ContentRows : \A j \in ContentRows : j <= i
            IN found' = [stage |-> "content", text |-> AnswerText(table[i])]
  /\ UNCHANGED <<table, q, allQuestions, scores>>
  /\ UNCHANGED nonFindVars

FindNext ==
  \/ FindExact
  \/ FindSynonym
  \/ FuzzySelect
  \/ ScoreRow
  \/ FuzzyRank
  \/ FindContent

FindSpec == FindInit /\ [][FindNext]_vars

\* Rows of knowledge_base that were not written by addKnowledge: the columns
\* answer and content are filled separately, and answer can be empty while
\* content is not
ImportedRows ==
  {[question |-> qu, answer |-> an, content |-> co] :
     qu \in RowQuestions, an \in {<<>>} \cup RowAnswers, co \in RowAnswers}

ImportedTables == UNION {[1..n -> ImportedRows] : n \in 0..FUZZY_LIMIT}

\* findInSupabase on a table that holds such rows
ImportInit ==
  /\ table \in ImportedTables
  /\ q \in Phrases
  /\ findPc = "exact"
  /\ allQuestions = <<>>
  /\ scores = <<>>
  /\ found = [stage |-> "none", text |-> <<>>]
  /\ GovIdle
  /\ SearchIdle
  /\ LookupIdle
  /\ ResolveIdle
  /\ HandlerIdle
  /\ DefaultIdle
  /\ WriteIdle
  /\ LoadIdle
  /\ FetchIdle
  /\ FlightIdle

ImportSpec == ImportInit /\ [][FindNext]_vars

(***************************************************************************)
(* getDefaultResponse (lines 177-206) and the getRelatedSuggestions call   *)
(* it makes (208-229).  A query is given by what the tests of lines        *)
(* 181-190 look at: how it starts, whether it ends with a question mark,   *)
(* and whether one of the greeting words is part of it.  The text that is  *)
(* returned is the sequence of its parts.                                  *)
(***************************************************************************)

\* The queries: start is the beginning of q, "other" for none of these
Queries ==
  {qs \in [start : {"what", "how to", "tell me", "steps to", "hello", "other"},
           questionMark : BOOLEAN, greetingInside : BOOLEAN] :
     qs.start = "hello" => qs.greetingInside}

\* The number of rows the select of getRelatedSuggestions can return
RelatedCounts == 0..3

\* Lines 180-190: the type of the first of QUESTION_PATTERNS whose regex
\* matches, 'general' if none does; 'greeting' if a greeting word is in q
QueryType(qs) ==
  IF qs.greetingInside
    THEN "greeting"
    ELSE CASE qs.start \in {"what", "how to"} -> "question"
           [] qs.questionMark                 -> "question"
           [] qs.start = "tell me"            -> "explanation"
           [] qs.start = "steps to"           -> "howto"
           [] OTHER                           -> "general"

\* What an async function returns to a caller that does not await it
AsyncCall == "pending"

\* `${suggestions}` for what the call of line 202 returned
TemplateString(suggestions) ==
  IF suggestions = "pending" THEN "[object Promise]" ELSE suggestions

\* suggestions ? `\n\n **Related topics:** ${suggestions}` : ''
SuggestionText(suggestions) ==
  IF suggestions \in {"null", "none"}
    THEN <<>>
    ELSE <<[part |-> "related topics", value |-> TemplateString(suggestions)]>>

\* A query in its surroundings: whether the store is configured and how many
\* questions the select of getRelatedSuggestions finds
DefaultInit ==
  /\ \E qs \in Queries, sa \in BOOLEAN, n \in RelatedCounts :
       defaultCall = [pc |-> "start", start |-> qs.start, questionMark |-> qs.questionMark,
                      greetingInside |-> qs.greetingInside, supabaseAvailable |-> sa,
                      related |-> n, text |-> <<>>, suggestions |-> "none"]
  /\ GovIdle
  /\ SearchIdle
  /\ LookupIdle
  /\ ResolveIdle
  /\ HandlerIdle
  /\ FindIdle
  /\ WriteIdle
  /\ LoadIdle
  /\ FetchIdle
  /\ FlightIdle

\* getDefaultResponse(query) runs, synchronously, and returns its text:
\* responses[queryType], the /add instruction with the query, and the
\* suggestion text made from what getRelatedSuggestions(q) returned
GetDefaultResponse ==
  /\ defaultCall.pc = "start"
  /\ defaultCall' =
       [defaultCall EXCEPT
          !.pc = "returned",
          !.suggestions = AsyncCall,
          !.text = <<[part |-> "base", value |-> QueryType(defaultCall)],
                     [part |-> "teach me", value |-> "query"]>>
                   \o SuggestionText(AsyncCall)]
  /\ UNCHANGED nonDefaultVars

\* Lines 209-228: the promise of getRelatedSuggestions is fulfilled, with
\* null or with the questions found, after getDefaultResponse has returned
SuggestionsSettle ==
  /\ defaultCall.pc = "returned"
  /\ defaultCall.suggestions = "pending"
  /\ defaultCall' =
       [defaultCall EXCEPT
          !.suggestions = IF defaultCall.supabaseAvailable /\ defaultCall.related > 0
                            THEN "questions" ELSE "null"]
  /\ UNCHANGED nonDefaultVars

DefaultNext ==
  \/ GetDefaultResponse
  \/ SuggestionsSettle

DefaultSpec == DefaultInit /\ [][DefaultNext]_vars

(***************************************************************************)
(* The claims                                                              *)
(***************************************************************************)

\* C1: the number of GovernorSlots (operations admitted that have neither
\* completed nor timed out) never exceeds the cap REQUEST_QUEUE_SIZE.
C1_SlotsNeverExceedCap == Count(Slots) <= REQUEST_QUEUE_SIZE

\* C2: queued admissions are granted in FIFO order: of two calls that were
\* parked, the one parked first has its operation started first.
C2_QueuedAdmissionsFifo ==
  \A x, y \in All :
    (x.ticket > 0 /\ y.ticket > x.ticket /\ y.started >= 1) => x.started >= 1

\* C3 (state part): while no operation has completed or timed out and the bot
\* is not shutting down, C+1 or more submitted calls leave exactly C operations
\* running and all the others parked in the queue.
C3_BurstFillsCap ==
  (/\ ~isShuttingDown
   /\ nCalls >= REQUEST_QUEUE_SIZE + 1
   /\ \A r \in All : r.pc \in {"queued", "active"})
  => /\ Count(Running) = REQUEST_QUEUE_SIZE
     /\ Count({r \in All : r.pc = "queued"}) = nCalls - REQUEST_QUEUE_SIZE
     /\ Len(requestQueue) = nCalls - REQUEST_QUEUE_SIZE

\* C3 (step part): a parked call leaves the queue towards its operation only in
\* a step in which a running operation completes (one that holds a slot, when
\* no timer has fired), and an operation of a call that was parked starts only
\* once the call has been woken that way.
C3_StartsOnlyAfterCompletion ==
  \A t \in Tickets :
    /\ (Rec(t).pc = "queued" /\ Rec(t)'.pc # "queued")
         => \/ /\ Rec(t)'.pc = "woken"
               /\ Count({r \in All : r.pc = "finished"})'
                    = Count({r \in All : r.pc = "finished"}) + 1
               /\ Count(Running)' = Count(Running) - 1
               /\ (\A r \in All : r.timer # "fired") => Count(Slots)' = Count(Slots) - 1
            \/ Rec(t)'.pc = "rejected" /\ isShuttingDown'
    /\ (Rec(t).pc # "active" /\ Rec(t)'.pc = "active") => Rec(t).pc = "woken"

\* C3: C+1 or more concurrent slow operations leave exactly C running and the
\* rest queued, and a queued operation starts only after a running one has
\* completed.
C3_CapAndQueue == []C3_BurstFillsCap /\ [][C3_StartsOnlyAfterCompletion]_vars

\* C3 witness: a call that was parked is running beside C-1 others while
\* another call is still parked.
C3_Witness ==
  /\ Count(Slots) = REQUEST_QUEUE_SIZE
  /\ \E r \in Slots : r.ticket > 0
  /\ Len(requestQueue) >= 1
  /\ \E r \in All : r.pc = "finished"

\* C4 (step part): in the step in which the timer of an admitted operation
\* fires, the caller is rejected with the timeout error while the operation is
\* still running, the slot is given back and the queue is left as it is.
C4_TimeoutStep ==
  (Count({r \in All : r.timer = "fired"})' = Count({r \in All : r.timer = "fired"}) + 1)
  => /\ Count({r \in All : r.outcome = "timeout"})'
          = Count({r \in All : r.outcome = "timeout"}) + 1
     /\ Count({r \in All : r.pc = "timedout"})'
          = Count({r \in All : r.pc = "timedout"}) + 1
     /\ Count(Running)' = Count(Running)
     /\ activeRequests' = activeRequests - 1
     /\ activeRequests' < REQUEST_QUEUE_SIZE
     /\ requestQueue' = requestQueue

\* C4 (state part): an operation that has timed out holds no slot: the counter
\* never exceeds the number of admitted operations that have not timed out,
\* so a call is admitted whenever fewer than C of those are running.
C4_TimedOutHoldsNoSlot == activeRequests <= Count(Slots)

C5_EndGrantsHead ==
  [][(Count(Slots)' < Count(Slots))
       => /\ activeRequests' = activeRequests - 1
          /\ (requestQueue # <<>>
                => /\ requestQueue' = Tail(requestQueue)
                   /\ wokenQueue' = Append(wokenQueue, Head(requestQueue)))]_vars

\* C6 (state part): while the bot is shutting down no call is parked, and a
\* call rejected with the shutting-down error never had its operation invoked.
C6_NoneParkedInShutdown ==
  /\ isShuttingDown => (requestQueue = <<>> /\ \A r \in All : r.pc # "queued")
  /\ \A r \in All : r.pc = "rejected" => (r.outcome = "shutdown" /\ r.started = 0)

\* C6 (step part): the step that starts the shutdown rejects every parked
\* call; after it, a call that is made is rejected at once, no operation is
\* started, and a rejected call stays rejected.
C6_ShutdownStep ==
  /\ (~isShuttingDown /\ isShuttingDown')
       => \A t \in Tickets :
            Rec(t).pc = "queued"
              => (Rec(t)'.pc = "rejected" /\ Rec(t)'.outcome = "shutdown"
                  /\ Rec(t)'.started = 0)
  /\ (isShuttingDown /\ nCalls' = nCalls + 1)
       => calls' = calls (+) One([NewCall EXCEPT !.pc = "rejected", !.outcome = "shutdown"])
  /\ isShuttingDown
       => /\ Count({r \in All : r.started >= 1})' = Count({r \in All : r.started >= 1})
          /\ Count(Slots)' <= Count(Slots)
  /\ Count({r \in All : r.pc = "rejected"})' >= Count({r \in All : r.pc = "rejected"})
  /\ \A t \in Tickets : Rec(t).pc = "rejected" => Rec(t)' = Rec(t)

\* C6: once gracefulShutdown has been initiated every later call fails at once
\* with the shutting-down error and every call parked at that moment is
\* rejected with it; none of their operations is ever started.
C6_ShutdownRejects == []C6_NoneParkedInShutdown /\ [][C6_ShutdownStep]_vars

\* C6 witness: the bot is shutting down, a call that was parked and a call
\* made after the shutdown began are both rejected, an operation still runs.
C6_Witness ==
  /\ isShuttingDown
  /\ \E r \in All : r.pc = "rejected" /\ r.ticket > 0
  /\ \E r \in All : r.pc = "rejected" /\ r.ticket = 0
  /\ Running # {}

\* C7: gracefulShutdown exits with code 0 only in a state where no admitted
\* operation is still running; stated here for the operations that still hold
\* their slot (admitted, neither timed out nor completed), which the claim
\* covers a fortiori.
C7_CleanExitOnlyWhenIdle == ExitCode = 0 => Slots = {}

\* C8: after gracefulShutdown is initiated the process eventually exits.
C8_ShutdownExits == isShuttingDown ~> Exited

\* C8 witness: the process was forced to exit while an operation that never
\* completed still held its slot.
C8_Witness == ExitCode = 1 /\ Slots # {} /\ activeRequests > 0

\* C9: the outcome of a call is the operation's result (the operation
\* returned, before its timer fired), the operation's error (it threw, before
\* its timer fired), the timeout error (its timer fired; a later completion
\* leaves it), or the shutting-down error (the operation was never invoked);
\* it is pending exactly while the call waits or its operation holds a slot.
C9_OutcomeIsOneOfFour ==
  \A r \in All :
    /\ r.outcome \in Outcomes
    /\ r.outcome = "result" => (r.op = "value" /\ r.timer = "cleared")
    /\ r.outcome = "operror" => (r.op = "error" /\ r.timer = "cleared")
    /\ r.outcome = "timeout" <=> r.timer = "fired"
    /\ r.outcome = "shutdown" <=> r.pc = "rejected"
    /\ r.outcome = "pending" <=> r.pc \in {"queued", "woken", "active"}
    /\ r.pc = "finished" => r.op # "none"

\* C9 witness: an operation completed after its caller had received the
\* timeout error.
C9_Witness ==
  \E r \in All : r.pc = "finished" /\ r.op = "value" /\ r.outcome = "timeout"

\* C10: the operation of a call is invoked at most once: once if the call was
\* granted a slot (at once or after waiting), never if it waits or was
\* rejected because of the shutdown.
C10_OperationInvokedOnce ==
  \A r \in All :
    /\ r.started <= 1
    /\ r.pc \in {"active", "timedout", "finished"} => r.started = 1
    /\ r.pc \in {"queued", "woken", "rejected"} => r.started = 0

\* C10 witness: a call that waited in the queue was granted a slot and its
\* operation was invoked once, while a call parked before it, woken and
\* parked again waits with its operation not invoked, and a call rejected
\* because of the shutdown never had its operation invoked.
C10_Witness ==
  /\ \E x, y \in All : /\ x.ticket > 0 /\ y.ticket > x.ticket
                       /\ y.started = 1 /\ x.started = 0
  /\ \E r \in All : r.pc = "rejected" /\ r.started = 0

\* C11: every expensive operation that runs and has not timed out holds a
\* governor slot (none runs outside processWithTimeout), so at most
\* REQUEST_QUEUE_SIZE of them run at once, and none was started after
\* gracefulShutdown set isShuttingDown.
C11_ExpensiveOpsHoldSlots ==
  /\ directLookups.running = 0
  /\ Count(Slots) + directLookups.running <= REQUEST_QUEUE_SIZE
  /\ ~directLookups.inShutdown

\* C12: in a store whose rows all have an answer, a kb-first lookup of a
\* query that equals the question of a row, letter case aside, is answered by
\* the exact stage with the answer of a row whose question equals the query,
\* whatever other rows the store holds.
C12_ExactMatchReturnsItsAnswer ==
  (/\ lookupPc = "done"
   /\ \A i \in DOMAIN store : store[i].answer # ""
   /\ \E i \in DOMAIN store : ToLowerCase(store[i].question) = ToLowerCase(query))
  => /\ lookupResult.stage = "exact"
     /\ \E j \in DOMAIN store :
          /\ ToLowerCase(store[j].question) = ToLowerCase(query)
          /\ lookupResult.text = store[j].answer

\* Stage i finds a match for the query: a store stage when the store holds a
\* row for its select, the LLM stage when it is configured and answers, the
\* default stage always
Matches(i) ==
  CASE i \in 1..4 -> resolveEnv.supabaseAvailable /\ resolveEnv.kb[i] \in {"hit", "empty"}
    [] i = 5      -> resolveEnv.groqEnabled /\ resolveEnv.llm = "answer"
    [] OTHER      -> TRUE

\* The first stage, in the order 1 to 6, that finds a match
FirstMatch == CHOOSE i \in 1..6 : Matches(i) /\ \A j \in 1..(i - 1) : ~Matches(j)

\* No processWithTimeout call of the resolution ended with a governor error
NoGovernorError ==
  /\ kbOutcome \in {"pending", "result"}
  /\ llmCall.outcome \in {"pending", "result", "operror"}

\* C13: in kb-first mode, when the governor raises no error, a stage is
\* consulted only after every earlier stage was consulted and found no match,
\* and the result comes from the first stage, in the order exact, synonym,
\* fuzzy, content, LLM, default, that finds a match.
C13_FirstMatchingStageWins ==
  (~resolveEnv.useAI /\ NoGovernorError)
  => /\ \A i \in consulted : \A j \in 1..(i - 1) :
          (j <= 4 => resolveEnv.supabaseAvailable) => (j \in consulted /\ ~Matches(j))
     /\ resolvePc = "done" => result.stage = StageName[FirstMatch]

\* C14: in llm-first mode no select of the store stages 1 to 4 is made, the
\* LLM stage is the first and only stage consulted, its answer is the result
\* when it gives one, and in every other case (LLM not configured, failed,
\* timed out, refused, or without an answer) the result is the default
\* response.
C14_LlmFirstSkipsStore ==
  resolveEnv.useAI
  => /\ consulted \subseteq {5}
     /\ fis.pc = 0 /\ kbOutcome = "pending"
     /\ resolvePc = "done"
          => IF /\ resolveEnv.groqEnabled
                /\ resolveEnv.llm = "answer"
                /\ llmCall.outcome = "result"
               THEN result.source = "groq_ai" /\ result.stage = "llm" /\ consulted = {5}
               ELSE result = DefaultResult

\* C14 witness: a resolution in llm-first mode has ended with the default
\* response after the LLM failed, although the store was configured and held
\* an exact match.
C14_Witness ==
  /\ resolveEnv.useAI /\ resolveEnv.supabaseAvailable /\ resolveEnv.kb[1] = "hit"
  /\ resolvePc = "done"
  /\ llmCall.outcome = "operror"
  /\ result = DefaultResult

\* C15: a failure of the store in one of the stages 1 to 4 counts as no match
\* of that stage and the lookup goes on: once findInSupabase has returned,
\* the stage after a stage that failed has been consulted as well.
C15_StoreFailureAdvances ==
  \A i \in 1..3 :
    (fis.pc = 5 /\ i \in consulted /\ resolveEnv.kb[i] = "error") => (i + 1) \in consulted

\* C16 (state part): a returned result has one of the sources of the code
\* with the stage that produced it and a text: the store's text if the
\* knowledge-base call returned one, else the LLM's answer if its call
\* returned one, else the default response; nothing is thrown, and there is
\* no result before enhancedFindAnswer returns.
C16_ResultWellFormed ==
  IF resolvePc = "done"
    THEN /\ result.text # ""
         /\ IF ~resolveEnv.useAI /\ kbOutcome = "result" /\ fis.value = "text"
              THEN /\ result.source = "knowledge_base"
                   /\ result.stage = StageName[fis.stage] /\ fis.stage \in 1..4
              ELSE IF llmCall.outcome = "result" /\ resolveEnv.llm = "answer"
                     THEN result.source = "groq_ai" /\ result.stage = "llm"
                     ELSE result = DefaultResult
    ELSE result = NoResult

C17_LlmFailureSwallowed ==
  /\ (5 \in consulted \/ llmCall.pc # "idle" \/ llmCall.outcome # "pending")
       => resolveEnv.groqEnabled
  /\ (resolvePc = "done" /\ llmCall.outcome \in {"operror", "timeout"})
       => result = DefaultResult

\* C17 witness: in kb-first mode the store had no match, the request to the
\* LLM was still outstanding when the governor's timer fired, and the default
\* response was returned.
C17_Witness ==
  /\ ~resolveEnv.useAI /\ resolveEnv.groqEnabled
  /\ fis.pc = 5 /\ fis.value = "null"
  /\ resolvePc = "done"
  /\ 5 \in consulted
  /\ llmCall.outcome = "timeout"
  /\ result = DefaultResult

\* C18: a message that was delivered more than once, and whose id was not
\* deleted from processedMessages for lack of room, led to at most one
\* enhancedFindAnswer call and at most one answer to the user.
C18_OneResolutionPerMessage ==
  \A m \in MsgIds :
    m \notin evictedIds => (handled[m].calls <= 1 /\ handled[m].answers <= 1)

\* C19: processedMessages never holds more than MAX_PROCESSED_IDS ids after a
\* handler has run, the oldest id goes first, and each of the
\* MAX_PROCESSED_IDS ids added last is still in it.
C19_BoundedOldestFirst ==
  /\ Len(processedMessages) <= MAX_PROCESSED_IDS
  /\ \A i, j \in DOMAIN processedMessages : processedMessages[i] = processedMessages[j] => i = j
  /\ Range(recentInserts) \subseteq Range(processedMessages)
  /\ processedMessages = recentInserts

\* C19: an id was deleted to make room and the Set is full again
C19_Witness ==
  /\ evictedIds # {}
  /\ Len(processedMessages) = MAX_PROCESSED_IDS
  /\ Len(recentInserts) = MAX_PROCESSED_IDS

\* The user has set neither mode flag
NeverSetMode(u) == session[u].voiceAIMode = "unset" /\ session[u].textAIMode = "unset"

\* C20: a resolution for a user who has never set a mode is called with
\* useAI false (knowledge base first), for a voice and for a text message,
\* whatever the other users have set.
C20_DefaultIsKbFirst ==
  (lastCall.id # 0 /\ NeverSetMode(Sender(lastCall.id))) => ~lastCall.useAI

\* C20: a voice message of a user who never set a mode was resolved after a
\* text message of the same user, while another user has both flags on
C20_Witness ==
  /\ lastCall.id # 0
  /\ Kind(lastCall.id) = "voice"
  /\ NeverSetMode(Sender(lastCall.id))
  /\ \E m \in MsgIds : /\ Kind(m) = "text"
                       /\ Sender(m) = Sender(lastCall.id)
                       /\ handled[m].calls = 1
  /\ \E u \in Users : session[u].voiceAIMode = "on" /\ session[u].textAIMode = "on"

\* C21: the mode flags of every user are what the latest toggle commands of
\* that user asked for, channel by channel, and the useAI flag of every
\* enhancedFindAnswer call is the flag of the sender's channel.
C21_ModesAreLastSet ==
  /\ [](\A u \in Users : /\ session[u].voiceAIMode = modeCommands[u].voice
                         /\ session[u].textAIMode = modeCommands[u].text)
  /\ [][\A m \in MsgIds :
          handled'[m].calls > handled[m].calls =>
            lastCall' = [id |-> m,
                         useAI |-> IF Kind(m) = "voice"
                                     THEN modeCommands[Sender(m)].voice = "on"
                                     ELSE modeCommands[Sender(m)].text = "on"]]_vars

\* C21: a user has the voice mode on and the text mode off, the other user
\* has not set any, and a voice message of the first was resolved LLM-first
C21_Witness ==
  /\ \E u \in Users : /\ session[u].voiceAIMode = "on"
                      /\ session[u].textAIMode = "off"
                      /\ lastCall.id # 0
                      /\ Sender(lastCall.id) = u
                      /\ Kind(lastCall.id) = "voice"
                      /\ lastCall.useAI
  /\ \E u \in Users : NeverSetMode(u)

\* The FUZZY_LIMIT rows of the table that were created last
MostRecent == {i \in DOMAIN table : i > Len(table) - FUZZY_LIMIT}

\* The score of row i of the table for the query
ScoreOf(i) == Score(q, table[i].question, AnswerText(table[i]))

\* The fuzzy stage has returned or has handed over to the content stage
FuzzyStageOver ==
  \/ found.stage = "fuzzy"
  \/ findPc = "content"
  \/ findPc = "done" /\ found.stage \in {"content", "none"}

\* C22: the fuzzy stage returns the answer of a row that is among the
\* FUZZY_LIMIT most recent rows, has a score above 0.3 that none of these rows
\* beats and that no earlier one of them equals; when none of these rows has
\* a score above 0.3 the stage returns nothing.
C22_FuzzyPicksBestOfMostRecent ==
  FuzzyStageOver =>
    IF \E i \in MostRecent : AboveThreshold(ScoreOf(i))
      THEN /\ found.stage = "fuzzy"
           /\ \E i \in MostRecent :
                /\ AboveThreshold(ScoreOf(i))
                /\ \A j \in MostRecent : ~Greater(ScoreOf(j), ScoreOf(i))
                /\ \A j \in MostRecent : j < i => Greater(ScoreOf(i), ScoreOf(j))
                /\ found.text = AnswerText(table[i])
      ELSE found.stage # "fuzzy"

\* The query contains a synonym of entry k of the map or a synonym of it
\* contains the query
LexicallyMatches(k) ==
  \E syn \in SYNONYM_MAP[k].synonyms : Includes(q, syn) \/ Includes(syn, q)

\* The synonym stage has returned or has handed over to the fuzzy stage
SynonymStageOver == findPc \in {"fuzzy", "score", "content"} \/ (findPc = "done" /\ found.stage # "exact")

\* C23: once the exact stage has found nothing, a query that contains a
\* synonym of the table, or is contained in one, whose canonical phrase is
\* part of the question of a row, is answered by the synonym stage with the
\* answer of a row whose question holds a canonical phrase.
C23_SynonymStageFires ==
  (/\ SynonymStageOver
   /\ \E k \in DOMAIN SYNONYM_MAP : LexicallyMatches(k) /\ SynonymRows(k) # {})
  => /\ found.stage = "synonym"
     /\ \E k \in DOMAIN SYNONYM_MAP : \E i \in SynonymRows(k) : found.text = table[i].answer

ScoreAsStated(qq, question, answer) ==
  LET qu == ToLowerCase(question)
      words1 == LongWords(qq)
      words2 == LongWords(qu)
      matching == {i \in DOMAIN words1 :
                     \E j \in DOMAIN words2 : \/ Includes(words2[j], words1[i])
                                              \/ Includes(words1[i], words2[j])}
      tokens == IF Len(words1) = 0 THEN 1 ELSE Len(words1)
      exactContains == Bit(Includes(qu, qq) \/ Includes(qq, qu))
      startsWith == Bit(StartsWith(qq, Split(qu)[1]))
      endsWith == Bit(EndsWith(qq, Split(qu)[Len(Split(qu))]))
      longer == Max(Len(qu), Len(qq))
      shorter == IF Len(qu) > Len(qq) THEN Len(qq) ELSE Len(qu)
      answerContains == Bit(Includes(ToLowerCase(answer), qq))
  IN [num |-> tokens * longer *
                (300 * exactContains + 150 * startsWith + 100 * endsWith
                   + 30 * answerContains)
              + 200 * Cardinality(matching) * longer
              + 50 * shorter * tokens,
      den |-> 100 * tokens * longer]

\* C25: every score computed is 3.0 * exact-contains + 2.0 * word-overlap +
\* 1.5 * starts-with + 1.0 * ends-with + 0.5 * length-similarity + 0.3 *
\* answer-contains with signals that are 1 or 0 and the word overlap taken
\* over the query's long words.
C25_ScoreIsWeightedSum ==
  \A i \in DOMAIN scores :
    LET item == table[allQuestions[i]]
        stated == ScoreAsStated(q, item.question, AnswerText(item))
    IN scores[i].num * stated.den = stated.num * scores[i].den

\* What findInSupabase returns in surroundings env when it runs to its end,
\* from stage i on: the stage of the row and "text", "empty" or "null"
RECURSIVE FisValueFrom(_, _)
FisValueFrom(env, i) ==
  IF i > 4
    THEN [value |-> "null", stage |-> 0]
    ELSE CASE env.kb[i] = "hit"   -> [value |-> "text", stage |-> i]
           [] env.kb[i] = "empty" -> [value |-> "empty", stage |-> i]
           [] env.kb[i] = "error" /\ AfterFailure(i) = "return null" ->
                [value |-> "null", stage |-> 0]
           [] OTHER -> FisValueFrom(env, i + 1)

\* What the LLM part returns in surroundings env when its call is admitted and
\* not timed out
LlmPartResult(env) ==
  IF env.groqEnabled /\ env.llm = "answer"
    THEN [source |-> "groq_ai", stage |-> "llm", text |-> "ai text"]
    ELSE DefaultResult

\* What enhancedFindAnswer returns in surroundings env when the governor
\* admits its calls and no timer fires
UndisturbedResult(env) ==
  IF ~env.useAI /\ env.supabaseAvailable /\ FisValueFrom(env, 1).value = "text"
    THEN [source |-> "knowledge_base", stage |-> StageName[FisValueFrom(env, 1).stage],
          text |-> "kb text"]
    ELSE LlmPartResult(env)

\* C26: the result of enhancedFindAnswer is a function of the mode, the
\* answers of the store and the answer of the LLM: it is the result the call
\* has when nothing else is going on.
C26_ResultIsDetermined ==
  resolvePc = "done" => result = UndisturbedResult(resolveEnv)

\* C27: no step of findInSupabase, in any of its four stages, whether the
\* stage finds a row or not, changes a row of the table or their number.
C27_StagesOnlyRead == [][table' = table]_vars

\* C27: findInSupabase has ended on a table with rows, with a row found or
\* after all four stages found none
C27_Witness ==
  /\ findPc = "done"
  /\ table # <<>>
  /\ found.stage \in {"exact", "synonym", "fuzzy", "content", "none"}

\* C28: the text of the default response is made of one part that names one
\* of the categories greeting, question, howto, explanation, general, and of
\* the teach-me instruction that holds the query, and of nothing else.
C28_DefaultTextParts ==
  defaultCall.pc = "returned" =>
    /\ Len(defaultCall.text) = 2
    /\ defaultCall.text[1].part = "base"
    /\ defaultCall.text[1].value \in {"greeting", "question", "howto", "explanation", "general"}
    /\ defaultCall.text[2] = [part |-> "teach me", value |-> "query"]

\* A governor error was raised in a processWithTimeout call of the request
GovernorErrorRaised ==
  \/ kbOutcome \in {"shutdown", "timeout"}
  \/ llmCall.outcome \in {"shutdown", "timeout"}

\* C29: when the timeout or the shutting-down error of the governor was
\* raised while enhancedFindAnswer ran for a voice or text message, what the
\* handler sends to the user afterwards is the apology.
C29_GovernorErrorBecomesApology ==
  (handlerReply # "none" /\ GovernorErrorRaised) => handlerReply = "apology"

\* The rows of a table whose question is the one added, letter case aside
SameQuestion(st) ==
  {i \in DOMAIN st : ToLowerCase(st[i].question) = ToLowerCase(added.question)}

\* C30: after addKnowledge has succeeded, a row of the table has the added
\* question, letter case aside, with the added answer as answer and content;
\* if such a row was there before, no row was inserted; and the kb-first
\* lookup of the question returns the added answer from the exact stage.
C30_AddThenLookup ==
  added.done =>
    /\ \E i \in SameQuestion(store) : /\ store[i].answer = added.answer
                                      /\ store[i].content = added.answer
    /\ SameQuestion(added.before) # {} => Len(store) = Len(added.before)
    /\ lookupPc = "done" => /\ lookupResult.stage = "exact"
                            /\ lookupResult.text = added.answer

\* C31: the active-request counter is exact: it is never negative and always
\* equals the number of admitted operations that have neither completed nor
\* timed out (each admitted operation takes the counter down exactly once).
C31_CounterIsExact == activeRequests >= 0 /\ activeRequests = Count(Slots)

\* Every started operation eventually completes or times out: again and again
\* no admitted operation holds a slot
EveryOperationEnds == []<>(Slots = {})

\* C32: no queued caller waits forever, provided every started operation
\* eventually completes or times out, even when no further call arrives: a
\* call parked in requestQueue eventually leaves it.
C32_NoCallerWaitsForever ==
  EveryOperationEnds => \A t \in 1..MaxCalls : (t \in Range(requestQueue)) ~> (t \notin Range(requestQueue))

\* C33 (state part): a call whose parsed question or answer is missing or
\* shorter than 2 characters has failed with the validation error: it never
\* reaches the existence check, the update or the insert.
C33_InvalidNeverProceeds ==
  \A c \in Adders :
    (adds[c].pc # "idle" /\ (Len(adds[c].question) < 2 \/ Len(adds[c].answer) < 2))
      => adds[c].pc = "invalid"

\* C33 (step part): the step in which a call fails validation leaves the store
\* unchanged, and every change of the store is the write of a call whose
\* question and answer have 2 characters or more.
C33_ValidationStep ==
  /\ \A c \in Adders : (adds[c].pc = "idle" /\ adds'[c].pc = "invalid")
                          => knowledge_base' = knowledge_base
  /\ knowledge_base' # knowledge_base
       => \E c \in Adders : /\ adds[c].pc = "write" /\ adds'[c].pc = "done"
                            /\ Len(adds[c].question) >= 2 /\ Len(adds[c].answer) >= 2

\* C33: addKnowledge validates before it writes: with a missing or short
\* question or answer it fails with an error, performs no insert and no
\* update, and the knowledge store is unchanged.
C33_ValidatesBeforeWrite == []C33_InvalidNeverProceeds /\ [][C33_ValidationStep]_vars

\* C33 witness: one call has written a row, and the other failed validation
\* for its one-character answer on the table that holds the row.
C33_Witness ==
  \E c, d \in Adders :
    /\ adds[c].pc = "done" /\ Len(knowledge_base) = 1
    /\ adds[d].pc = "invalid" /\ Len(adds[d].question) >= 2 /\ Len(adds[d].answer) = 1

\* C34: starting from a store with no two entries whose questions are equal
\* case-insensitively, the store never contains two such entries, whatever
\* addKnowledge calls are made and however their reads and writes interleave.
C34_NoDuplicateQuestions ==
  \A i, j \in DOMAIN knowledge_base :
    ToLowerCase(knowledge_base[i].question) = ToLowerCase(knowledge_base[j].question)
      => i = j

\* C35: the session is waiting for a document question only while pending
\* document text is present; a document question is never sent to the LLM
\* with missing document text; and when the pending document text is cleared
\* (after summarize, save, extract or an answered question) the name and the
\* timestamp are cleared with it.
C35_WaitingOnlyWithDocument ==
  [][\A u \in Users :
       /\ session'[u].waitingForQuestion => session'[u].documentText
       /\ (session[u].waitingForQuestion /\ ~session'[u].waitingForQuestion)
            => session[u].documentText
       /\ (session[u].documentText /\ ~session'[u].documentText)
            => ~session'[u].documentName /\ ~session'[u].documentTimestamp]_vars

C40_RefusedAtBoundary ==
  [][(isShuttingDown \/ activeRequests >= REQUEST_QUEUE_SIZE)
       => \A m \in MsgIds : handled'[m].calls = handled[m].calls]_vars

\* C38: for every content of the knowledge store, entries whose answer is
\* empty while content is not included, a stage (exact, synonym, fuzzy or
\* content) that finds a matching entry returns non-empty text, so that the
\* result comes from the knowledge store and not from the LLM or default stage.
C38_MatchGivesText ==
  (findPc = "done" /\ found.stage # "none") => found.text # <<>>

\* C37: for any interleaving of loadTranscriber calls at most one model load
\* is in progress; the model is not loaded again once a load has succeeded;
\* the callers parked during a load receive the transcriber in the step in
\* which that load succeeds, and are released with an error in the step in
\* which it fails.
C37_OneLoadSharedByWaiters ==
  [][/\ loads'.running <= 1
     /\ transcriber # "null" => loads'.started = loads.started
     /\ (transcriber = "null" /\ transcriber' # "null")
          => \A c \in Range(modelLoadQueue) :
               /\ loadCalls'[c].pc = "returned"
               /\ loadCalls'[c].outcome = Settle(loadCalls[c].outcome, "transcriber")
     /\ (loads'.running < loads.running /\ transcriber' = "null")
          => \A c \in Range(modelLoadQueue) :
               /\ loadCalls'[c].pc = "returned"
               /\ loadCalls'[c].outcome = Settle(loadCalls[c].outcome, "error")]_vars

\* C39: fetchWithRetry makes at most `attempts` fetch calls; a returned
\* response is that of the first attempt that succeeded, with no fetch after
\* it; after the i-th failed attempt it waits 1000 * i ms before the next
\* one; when it throws, all attempts have failed and the error is that of the
\* final attempt; it never ends without a response or a thrown error.
C39_RetriesThenThrowsLast ==
  /\ fetchCall.fetches <= fetchCall.attempts
  /\ fetchCall.pc = "returned"
       => /\ fetchCall.response = fetchCall.fetches
          /\ Len(fetchCall.errors) = fetchCall.fetches - 1
  /\ fetchCall.pc = "thrown"
       => /\ fetchCall.fetches = fetchCall.attempts
          /\ Len(fetchCall.errors) = fetchCall.attempts
          /\ fetchCall.thrown = fetchCall.errors[fetchCall.attempts]
          /\ fetchCall.thrown.attempt = fetchCall.attempts
          /\ fetchCall.response = 0
  /\ fetchCall.pc = "fetch" => Len(fetchCall.waits) = fetchCall.fetches
  /\ Len(fetchCall.waits) =
       IF fetchCall.pc = "thrown" THEN Len(fetchCall.errors) - 1 ELSE Len(fetchCall.errors)
  /\ \A k \in DOMAIN fetchCall.waits : fetchCall.waits[k] = 1000 * k
  /\ \A k \in DOMAIN fetchCall.errors : fetchCall.errors[k].attempt = k
  /\ fetchCall.pc # "ended"

\* C39 witness: a call with three attempts has thrown the error of the third
\* attempt after waits of 1000 and 2000 ms.
C39_Witness ==
  /\ fetchCall.pc = "thrown"
  /\ fetchCall.attempts = 3
  /\ fetchCall.fetches = 3
  /\ fetchCall.waits = <<1000, 2000>>
  /\ fetchCall.thrown.attempt = 3

====
